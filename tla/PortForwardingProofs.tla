------------------------ MODULE PortForwardingProofs ------------------------
(***************************************************************************)
(* For any number of sessions, targets, ports and faults: what a session    *)
(* reports is served, the loop forwards a port once, and a session that     *)
(* ended has left nothing behind.                                           *)
(***************************************************************************)
EXTENDS PortForwarding, TLAPS

Before == {"idle", "planned", "detached", "start", "metadata"}
Over == {"exit", "done", "killed"}
Pcs == Before \cup {"exec", "wait", "listen", "serve", "stop"} \cup Over
AgentStates == {"none", "starting", "up", "gone"}

\* What the argument needs of the types.
Types ==
    /\ host \in [HostPorts -> Holders]
    /\ open \subseteq HostPorts
    /\ agent \in [Sessions -> [Targets -> AgentStates]]
    /\ allowed \in [Sessions -> [Targets -> SUBSET HostPorts]]
    /\ queue \in [Sessions -> [Targets -> Seq({"scan", "shutdown"})]]
    /\ status \in [Sessions -> {"none", "sock", "both"}]
    /\ pc \in [Sessions -> Pcs]
    /\ auto \in [Sessions -> {"no", "off", "asleep", "asked", "answered", "bind"}]
    /\ DOMAIN plan = Sessions /\ DOMAIN todo = Sessions /\ DOMAIN adds = Sessions
    /\ \A s \in Sessions : \A i \in DOMAIN plan[s] : plan[s][i].c \in HostPorts
    /\ live \in [Sessions -> SUBSET Targets]
    /\ registry \in [Sessions -> SUBSET Kinds]
    /\ found \in [Sessions -> SUBSET HostPorts]
    /\ lost \in [Sessions -> SUBSET Targets]

\* A target is live from its report to its stop; the loop belongs to target 1.
Living(s) ==
    /\ pc[s] \in Before \cup Over => live[s] = {}
    /\ auto[s] \notin {"no", "off"} => 1 \in live[s]
    /\ \A t \in live[s] : agent[s][t] \in {"up", "gone"}

\* Where an agent may be in a target that is not live.
ToldToEnd(s, t) ==
    agent[s][t] \in {"none", "gone"} \/ t \in lost[s] \/ "shutdown" \in Range(queue[s][t])
Agents(s) ==
    \A t \in Targets \ live[s] :
        /\ pc[s] \in Before \cup {"exec", "serve"} => agent[s][t] = "none"
        /\ pc[s] = "wait" => agent[s][t] = "none" \/ NextTarget(s, t)
        /\ pc[s] = "listen" => IF NextTarget(s, t) THEN agent[s][t] \in {"up", "gone"}
                                                   ELSE agent[s][t] = "none"
        /\ pc[s] \in {"stop", "exit", "done"} => ToldToEnd(s, t)

\* Each listener belongs to a target that is live or about to be, and its
\* agent will connect to the port.
Listening(s) ==
    \A p, c \in HostPorts, t \in Targets : host[p] = L(s, t, c) =>
        /\ t \in live[s] \/ (pc[s] = "listen" /\ NextTarget(s, t))
        /\ agent[s][t] = "gone" \/ (agent[s][t] = "up" /\ c \in allowed[s][t])

\* What a session is about to listen for, its agent allows.
Allowing(s) ==
    /\ \A t \in Targets : pc[s] \in {"wait", "listen"} /\ NextTarget(s, t) =>
          /\ agent[s][t] # "none" => \A i \in Ports(s, t) : plan[s][i].c \in allowed[s][t]
          /\ pc[s] = "listen" => todo[s] \subseteq Ports(s, t)
    /\ found[s] \cup DOMAIN adds[s] \subseteq allowed[s][1]
    /\ found[s] # {} => auto[s] = "answered"
    /\ DOMAIN adds[s] # {} => auto[s] = "bind"
    /\ \A t \in Targets : \A i \in DOMAIN queue[s][t] : queue[s][t][i] = "scan" => t = 1

\* A report is true while its target is live.
Reporting(s) ==
    \A r \in registry[s] :
        /\ r.t \in live[s] \/ (pc[s] = "stop" /\ 1 \notin live[s])
        /\ r.t \in live[s] => host[r.h] = L(s, r.t, r.c)

\* The loop's listeners before their report: for ports that nothing forwards.
Adding(s) ==
    /\ \A r1, r2 \in registry[s] : r1.t = r2.t /\ r1.c = r2.c /\ r1.src = "auto" => r1 = r2
    /\ 1 \in live[s] => \A p \in HostPorts \ Reported(s), c \in HostPorts :
          host[p] = L(s, 1, c) =>
              /\ auto[s] = "bind" /\ c \notin Forwarded(s) \cup DOMAIN adds[s]
              /\ \A q \in HostPorts : host[q] = L(s, 1, c) => q = p
    /\ DOMAIN adds[s] \cap Forwarded(s) = {}

\* The files of the status server go with it, but for a socket alone.
Filed(s) ==
    /\ pc[s] \in {"idle", "planned", "detached", "start"} => status[s] = "none"
    /\ pc[s] \in {"metadata", "exit", "done"} => status[s] # "both"

SessionInv(s) ==
    Living(s) /\ Agents(s) /\ Listening(s) /\ Allowing(s) /\ Reporting(s) /\ Adding(s) /\ Filed(s)
Inv == Types /\ \A s \in Sessions : SessionInv(s)

-----------------------------------------------------------------------------
\* Everything a session's invariant depends on stays as it is.
Same(u) ==
    /\ pc'[u] = pc[u] /\ auto'[u] = auto[u] /\ plan'[u] = plan[u] /\ todo'[u] = todo[u]
    /\ adds'[u] = adds[u] /\ live'[u] = live[u] /\ registry'[u] = registry[u]
    /\ found'[u] = found[u] /\ lost'[u] = lost[u] /\ status'[u] = status[u]
    /\ agent'[u] = agent[u] /\ allowed'[u] = allowed[u] /\ queue'[u] = queue[u]
    /\ \A p, c \in HostPorts, t \in Targets : host'[p] = L(u, t, c) <=> host[p] = L(u, t, c)

LEMMA ListenersDiffer ==
    ASSUME NEW s \in Sessions, NEW t \in Targets, NEW c \in HostPorts
    PROVE  /\ L(s, t, c) \in Holders /\ L(s, t, c) # NoOne /\ L(s, t, c) # Foreign
           /\ NoOne \in Holders /\ Foreign \in Holders
           /\ \A u \in Sessions, v \in Targets, d \in HostPorts :
                 L(s, t, c) = L(u, v, d) => s = u /\ t = v /\ c = d
BY HoldersAssumption DEF L, Holders

LEMMA NextIsOne ==
    ASSUME NEW s, NEW t, NEW u, NextTarget(s, t), NextTarget(s, u)
    PROVE  t = u
BY TargetsAssumption DEF NextTarget, Rest, AgentTargets

LEMMA BoundIsFree ==
    ASSUME NEW h, NEW p \in BindForwardListener(h)
    PROVE  p \in HostPorts /\ host[p] = NoOne
BY DEF BindForwardListener, Ends

LEMMA SameKeeps ==
    ASSUME Types, NEW u \in Sessions, SessionInv(u), Same(u)
    PROVE  SessionInv(u)'
<1>1. /\ \A t : Ports(u, t)' = Ports(u, t)
      /\ Rest(u)' = Rest(u)
      /\ \A t : NextTarget(u, t)' <=> NextTarget(u, t)
  BY DEF Same, Ports, Rest, AgentTargets, NextTarget
<1>2. Reported(u)' = Reported(u) /\ Forwarded(u)' = Forwarded(u)
  BY DEF Same, Reported, Forwarded
<1>3. Living(u)' /\ Filed(u)'
  BY DEF SessionInv, Same, Living, Filed
<1>4. Agents(u)'
  BY <1>1 DEF SessionInv, Same, Agents, ToldToEnd
<1>5. Listening(u)'
  BY <1>1 DEF SessionInv, Same, Listening
<1>6. Allowing(u)'
  BY <1>1 DEF SessionInv, Same, Allowing
<1>7. Reporting(u)'
  <2>1. \A r \in registry[u] : r.h \in HostPorts /\ r.t \in Targets /\ r.c \in HostPorts
    BY DEF Types, Kinds
  <2>. QED BY <2>1 DEF SessionInv, Same, Reporting
<1>8. Adding(u)'
  BY <1>2, TargetsAssumption DEF SessionInv, Same, Adding
<1>. QED BY <1>3, <1>4, <1>5, <1>6, <1>7, <1>8 DEF SessionInv

LEMMA OneSession ==
    ASSUME Inv, NEW s \in Sessions, Types', \A u \in Sessions \ {s} : Same(u), SessionInv(s)'
    PROVE  Inv'
BY SameKeeps DEF Inv

\* What a change of one target's agent, ports or queue leaves alone.
LEMMA AgentSet ==
    ASSUME Types, NEW s \in Sessions, NEW t \in Targets, NEW x \in AgentStates,
           agent' = SetAt(agent, s, t, x)
    PROVE  /\ agent' \in [Sessions -> [Targets -> AgentStates]]
           /\ agent'[s][t] = x
           /\ \A v \in Targets \ {t} : agent'[s][v] = agent[s][v]
           /\ \A u \in Sessions \ {s} : agent'[u] = agent[u]
<1>1. agent \in [Sessions -> [Targets -> AgentStates]]
  BY DEF Types
<1>. QED BY <1>1 DEF SetAt

LEMMA AllowedSet ==
    ASSUME Types, NEW s \in Sessions, NEW t \in Targets, NEW x \in SUBSET HostPorts,
           allowed' = SetAt(allowed, s, t, x)
    PROVE  /\ allowed' \in [Sessions -> [Targets -> SUBSET HostPorts]]
           /\ allowed'[s][t] = x
           /\ \A v \in Targets \ {t} : allowed'[s][v] = allowed[s][v]
           /\ \A u \in Sessions \ {s} : allowed'[u] = allowed[u]
<1>1. allowed \in [Sessions -> [Targets -> SUBSET HostPorts]]
  BY DEF Types
<1>. QED BY <1>1 DEF SetAt

LEMMA QueueSet ==
    ASSUME Types, NEW s \in Sessions, NEW t \in Targets, NEW x \in Seq({"scan", "shutdown"}),
           queue' = SetAt(queue, s, t, x)
    PROVE  /\ queue' \in [Sessions -> [Targets -> Seq({"scan", "shutdown"})]]
           /\ queue'[s][t] = x
           /\ \A v \in Targets \ {t} : queue'[s][v] = queue[s][v]
           /\ \A u \in Sessions \ {s} : queue'[u] = queue[u]
<1>1. queue \in [Sessions -> [Targets -> Seq({"scan", "shutdown"})]]
  BY DEF Types
<1>. QED BY <1>1 DEF SetAt

\* The agent is told to end unless nobody reads it.
LEMMA ShutdownIs ==
    ASSUME Types, NEW s \in Sessions, NEW t \in Targets, Shutdown(s, t)
    PROVE  /\ queue' \in [Sessions -> [Targets -> Seq({"scan", "shutdown"})]]
           /\ \A v \in Targets \ {t} : queue'[s][v] = queue[s][v]
           /\ \A u \in Sessions \ {s} : queue'[u] = queue[u]
           /\ agent[s][t] = "up" => "shutdown" \in Range(queue'[s][t])
           /\ \A v \in Targets : \A i \in DOMAIN queue'[s][v] : queue'[s][v][i] = "scan" =>
                 i \in DOMAIN queue[s][v] /\ queue[s][v][i] = "scan"
<1>. DEFINE q == queue[s][t]
            r == Append(q, "shutdown")
<1>1. q \in Seq({"scan", "shutdown"})
  BY DEF Types
<1>2. /\ r \in Seq({"scan", "shutdown"})
      /\ r[Len(q) + 1] = "shutdown" /\ Len(q) + 1 \in DOMAIN r
      /\ \A i \in DOMAIN r : r[i] = "scan" => i \in DOMAIN q /\ q[i] = "scan"
  BY <1>1
<1>3. CASE agent[s][t] = "up"
  <2>1. queue' = SetAt(queue, s, t, r)
    BY <1>3 DEF Shutdown
  <2>2. /\ queue' \in [Sessions -> [Targets -> Seq({"scan", "shutdown"})]]
        /\ queue'[s][t] = r
        /\ \A v \in Targets \ {t} : queue'[s][v] = queue[s][v]
        /\ \A u \in Sessions \ {s} : queue'[u] = queue[u]
    BY <1>2, <2>1, QueueSet
  <2>3. "shutdown" \in Range(queue'[s][t])
    BY <1>2, <2>2 DEF Range
  <2>. QED BY <1>2, <2>2, <2>3
<1>4. CASE agent[s][t] # "up"
  BY <1>4 DEF Shutdown, Types
<1>. QED BY <1>3, <1>4

\* The listeners of a session for some targets are dropped, and no others.
Dropped(s, ts) ==
    /\ \A p \in HostPorts : host'[p] \in {NoOne, host[p]}
    /\ \A p, d \in HostPorts, v \in ts : host'[p] # L(s, v, d)
    /\ \A p, d \in HostPorts, v \in Targets, u \in Sessions :
          host[p] = L(u, v, d) /\ (u # s \/ v \notin ts) => host'[p] = host[p]

LEMMA UnlistenIs ==
    ASSUME Types, NEW s \in Sessions, NEW ts \in SUBSET Targets,
           host' = Unlisten(Listeners(s, ts))
    PROVE  host' \in [HostPorts -> Holders] /\ Dropped(s, ts)
<1>1. host \in [HostPorts -> Holders] /\ NoOne \in Holders
  BY DEF Types, Holders
<1>2. host' \in [HostPorts -> Holders]
  BY <1>1 DEF Unlisten
<1>3. \A p \in HostPorts : host'[p] = IF p \in Listeners(s, ts) THEN NoOne ELSE host[p]
  BY DEF Unlisten
<1>4. ASSUME NEW p \in HostPorts, NEW d \in HostPorts, NEW v \in ts
      PROVE  host'[p] # L(s, v, d)
  BY <1>3, ListenersDiffer DEF Listeners
<1>5. ASSUME NEW p \in HostPorts, NEW d \in HostPorts, NEW v \in Targets, NEW u \in Sessions,
             host[p] = L(u, v, d), u # s \/ v \notin ts
      PROVE  host'[p] = host[p]
  <2>1. p \notin Listeners(s, ts)
    BY <1>5, ListenersDiffer DEF Listeners
  <2>. QED BY <1>3, <2>1
<1>. QED BY <1>2, <1>3, <1>4, <1>5 DEF Dropped

LEMMA OthersListen ==
    ASSUME NEW s, NEW ts, Dropped(s, ts)
    PROVE  \A u \in Sessions \ {s}, p, c \in HostPorts, v \in Targets :
              host'[p] = L(u, v, c) <=> host[p] = L(u, v, c)
<1>. SUFFICES ASSUME NEW u \in Sessions \ {s}, NEW p \in HostPorts, NEW c \in HostPorts,
                     NEW v \in Targets
              PROVE  host'[p] = L(u, v, c) <=> host[p] = L(u, v, c)
  OBVIOUS
<1>1. host'[p] \in {NoOne, host[p]} /\ L(u, v, c) # NoOne
  BY ListenersDiffer DEF Dropped
<1>2. host[p] = L(u, v, c) => host'[p] = host[p]
  BY DEF Dropped
<1>. QED BY <1>1, <1>2

LEMMA StillListens ==
    ASSUME NEW s \in Sessions, NEW ts, Dropped(s, ts)
    PROVE  \A p, c \in HostPorts, v \in Targets :
              host'[p] = L(s, v, c) => host[p] = L(s, v, c) /\ v \notin ts
<1>. SUFFICES ASSUME NEW p \in HostPorts, NEW c \in HostPorts, NEW v \in Targets,
                     host'[p] = L(s, v, c)
              PROVE  host[p] = L(s, v, c) /\ v \notin ts
  OBVIOUS
<1>1. host'[p] \in {NoOne, host[p]} /\ L(s, v, c) # NoOne
  BY ListenersDiffer DEF Dropped
<1>. QED BY <1>1 DEF Dropped

\* Reading a request that is no request to end.
LEMMA TailKeeps ==
    ASSUME NEW q \in Seq({"scan", "shutdown"}), q # <<>>, q[1] = "scan"
    PROVE  /\ Tail(q) \in Seq({"scan", "shutdown"})
           /\ "shutdown" \in Range(q) => "shutdown" \in Range(Tail(q))
           /\ \A i \in DOMAIN Tail(q) : i + 1 \in DOMAIN q /\ Tail(q)[i] = q[i + 1]
<1>1. /\ Tail(q) \in Seq({"scan", "shutdown"})
      /\ \A i \in DOMAIN Tail(q) : i + 1 \in DOMAIN q /\ Tail(q)[i] = q[i + 1]
  OBVIOUS
<1>2. ASSUME "shutdown" \in Range(q)
      PROVE  "shutdown" \in Range(Tail(q))
  <2>1. PICK i \in DOMAIN q : q[i] = "shutdown"
    BY <1>2 DEF Range
  <2>2. i - 1 \in DOMAIN Tail(q) /\ Tail(q)[i - 1] = "shutdown"
    BY <2>1
  <2>. QED BY <2>2 DEF Range
<1>. QED BY <1>1, <1>2

LEMMA ExecAgentStep ==
    ASSUME Inv, NEW s \in Sessions, NEW t \in Targets, ExecAgent(s, t)
    PROVE  Inv'
<1>. USE DEF ExecAgent, Goto, shared, agents, local
<1>1. Types /\ SessionInv(s)
  BY DEF Inv
<1>2. pc[s] = "exec" /\ NextTarget(s, t) /\ t \notin live[s]
  BY DEF NextTarget, Rest
<1>3. /\ pc' \in [Sessions -> Pcs] /\ pc'[s] = "wait"
      /\ \A u \in Sessions \ {s} : pc'[u] = pc[u]
  BY <1>1 DEF Types, Pcs
<1>4. /\ agent' \in [Sessions -> [Targets -> AgentStates]]
      /\ agent'[s][t] = "starting"
      /\ \A v \in Targets \ {t} : agent'[s][v] = agent[s][v]
      /\ \A u \in Sessions \ {s} : agent'[u] = agent[u]
  <2>1. "starting" \in AgentStates
    BY DEF AgentStates
  <2>. QED BY <1>1, <2>1, AgentSet
<1>5. /\ allowed' \in [Sessions -> [Targets -> SUBSET HostPorts]]
      /\ allowed'[s][t] = {plan[s][i].c : i \in Ports(s, t)}
      /\ \A v \in Targets \ {t} : allowed'[s][v] = allowed[s][v]
      /\ \A u \in Sessions \ {s} : allowed'[u] = allowed[u]
  <2>1. {plan[s][i].c : i \in Ports(s, t)} \in SUBSET HostPorts
    BY <1>1 DEF Types, Ports
  <2>. QED BY <1>1, <2>1, AllowedSet
<1>6. Types'
  BY <1>1, <1>3, <1>4, <1>5 DEF Types
<1>7. \A u \in Sessions \ {s} : Same(u)
  BY <1>3, <1>4, <1>5 DEF Same
<1>8. /\ \A v : Ports(s, v)' = Ports(s, v)
      /\ \A v : NextTarget(s, v)' = NextTarget(s, v)
      /\ Reported(s)' = Reported(s) /\ Forwarded(s)' = Forwarded(s)
  BY DEF Ports, Rest, AgentTargets, NextTarget, Reported, Forwarded
<1>9. Living(s)'
  <2>1. live[s] \in SUBSET Targets BY <1>1 DEF Types
  <2>. QED BY <1>1, <1>2, <1>3, <1>4, <2>1 DEF SessionInv, Living, Before, Over
<1>10. Agents(s)'
  BY <1>1, <1>2, <1>3, <1>4, <1>8 DEF SessionInv, Agents, Before
<1>11. Listening(s)'
  <2>1. \A p, c \in HostPorts, v \in Targets : host[p] = L(s, v, c) => v \in live[s] /\ v # t
    BY <1>1, <1>2 DEF SessionInv, Listening
  <2>. QED BY <1>1, <1>4, <1>5, <2>1 DEF SessionInv, Listening
<1>12. Allowing(s)'
  BY <1>1, <1>2, <1>3, <1>4, <1>5, <1>8, NextIsOne, TargetsAssumption DEF SessionInv, Allowing, Living
<1>13. Reporting(s)'
  BY <1>1, <1>2, <1>3 DEF SessionInv, Reporting
<1>14. Adding(s)'
  BY <1>1, <1>8 DEF SessionInv, Adding
<1>15. Filed(s)'
  BY <1>1, <1>2, <1>3 DEF SessionInv, Filed
<1>. QED BY <1>1, <1>6, <1>7, <1>9, <1>10, <1>11, <1>12, <1>13, <1>14, <1>15, SameKeeps DEF Inv, SessionInv
\* Before a session starts its first agent.
LEMMA NotStarted ==
    ASSUME Inv, NEW s \in Sessions, pc[s] \in Before, Types',
           pc'[s] \in Before \cup {"exec", "serve", "exit"}, auto'[s] \in {"no", "off"},
           pc'[s] = "exit" => status'[s] # "both",
           pc'[s] = "metadata" => status'[s] # "both",
           pc'[s] \in {"idle", "planned", "detached", "start"} => status'[s] = "none",
           \A u \in Sessions \ {s} : Same(u),
           UNCHANGED <<host, agents, todo, adds, live, registry, found, lost>>
    PROVE  Inv'
<1>. USE DEF agents
<1>1. Types /\ SessionInv(s)
  BY DEF Inv
<1>2. /\ live[s] = {} /\ registry[s] = {} /\ found[s] = {} /\ DOMAIN adds[s] = {}
      /\ \A t \in Targets : agent[s][t] = "none"
      /\ \A p, c \in HostPorts, t \in Targets : host[p] # L(s, t, c)
  BY <1>1 DEF SessionInv, Living, Agents, Listening, Allowing, Reporting, Before, Over
<1>3. Types'
  OBVIOUS
<1>4. \A u \in Sessions \ {s} : Same(u)
  OBVIOUS
<1>5. Living(s)'
  BY <1>1, <1>2 DEF SessionInv, Living, Before, Over
<1>6. Agents(s)'
  BY <1>1, <1>2 DEF SessionInv, Agents, ToldToEnd, Before
<1>7. Listening(s)'
  BY <1>1, <1>2 DEF SessionInv, Listening
<1>8. Allowing(s)'
  BY <1>1, <1>2 DEF SessionInv, Allowing, Before
<1>9. Reporting(s)'
  BY <1>1, <1>2 DEF SessionInv, Reporting
<1>10. Adding(s)'
  BY <1>1, <1>2 DEF SessionInv, Adding
<1>11. Filed(s)'
  BY <1>1, <1>2 DEF SessionInv, Filed, Before
<1>. QED BY <1>1, <1>3, <1>4, <1>5, <1>6, <1>7, <1>8, <1>9, <1>10, <1>11, OneSession DEF SessionInv

LEMMA ExecAgentFailsStep ==
    ASSUME Inv, NEW s \in Sessions, NEW t \in Targets, ExecAgentFails(s, t)
    PROVE  Inv'
<1>. USE DEF ExecAgentFails, Goto, Set, shared, agents, local
<1>1. Types /\ SessionInv(s)
  BY DEF Inv
<1>2. pc[s] = "exec" /\ pc'[s] = "stop"
  BY <1>1 DEF Types
<1>3. Types'
  BY <1>1 DEF Types, Pcs, Before, Over
<1>4. \A u \in Sessions \ {s} : Same(u)
  BY <1>1 DEF Types, Same
<1>5. /\ \A v : Ports(s, v)' = Ports(s, v)
      /\ \A v : NextTarget(s, v)' = NextTarget(s, v)
      /\ Reported(s)' = Reported(s) /\ Forwarded(s)' = Forwarded(s)
  BY DEF Ports, Rest, AgentTargets, NextTarget, Reported, Forwarded
<1>6. Living(s)'
  BY <1>1, <1>2, <1>5 DEF SessionInv, Living, Before, Over
<1>7. Agents(s)'
  BY <1>1, <1>2, <1>5 DEF SessionInv, Agents, ToldToEnd, Before
<1>8. Listening(s)'
  BY <1>1, <1>2, <1>5 DEF SessionInv, Listening
<1>9. Allowing(s)'
  BY <1>1, <1>2, <1>5 DEF SessionInv, Allowing
<1>10. Reporting(s)'
  BY <1>1, <1>2, <1>5 DEF SessionInv, Reporting
<1>11. Adding(s)'
  BY <1>1, <1>2, <1>5 DEF SessionInv, Adding
<1>12. Filed(s)'
  BY <1>1, <1>2, <1>5 DEF SessionInv, Filed
<1>. QED BY <1>1, <1>3, <1>4, <1>6, <1>7, <1>8, <1>9, <1>10, <1>11, <1>12, OneSession DEF SessionInv

LEMMA ShellEndsStep ==
    ASSUME Inv, NEW s \in Sessions, ShellEnds(s)
    PROVE  Inv'
<1>. USE DEF ShellEnds, Goto, Set, shared, agents, local
<1>1. Types /\ SessionInv(s)
  BY DEF Inv
<1>2. pc[s] = "serve" /\ pc'[s] = "stop"
  BY <1>1 DEF Types
<1>3. Types'
  BY <1>1 DEF Types, Pcs, Before, Over
<1>4. \A u \in Sessions \ {s} : Same(u)
  BY <1>1 DEF Types, Same
<1>5. /\ \A v : Ports(s, v)' = Ports(s, v)
      /\ \A v : NextTarget(s, v)' = NextTarget(s, v)
      /\ Reported(s)' = Reported(s) /\ Forwarded(s)' = Forwarded(s)
  BY DEF Ports, Rest, AgentTargets, NextTarget, Reported, Forwarded
<1>6. Living(s)'
  BY <1>1, <1>2, <1>5 DEF SessionInv, Living, Before, Over
<1>7. Agents(s)'
  BY <1>1, <1>2, <1>5 DEF SessionInv, Agents, ToldToEnd, Before
<1>8. Listening(s)'
  BY <1>1, <1>2, <1>5 DEF SessionInv, Listening
<1>9. Allowing(s)'
  BY <1>1, <1>2, <1>5 DEF SessionInv, Allowing
<1>10. Reporting(s)'
  BY <1>1, <1>2, <1>5 DEF SessionInv, Reporting
<1>11. Adding(s)'
  BY <1>1, <1>2, <1>5 DEF SessionInv, Adding
<1>12. Filed(s)'
  BY <1>1, <1>2, <1>5 DEF SessionInv, Filed
<1>. QED BY <1>1, <1>3, <1>4, <1>6, <1>7, <1>8, <1>9, <1>10, <1>11, <1>12, OneSession DEF SessionInv

LEMMA AgentAnswersStep ==
    ASSUME Inv, NEW s \in Sessions, NEW t \in Targets, AgentAnswers(s, t)
    PROVE  Inv'
<1>. USE DEF AgentAnswers, Goto, Set, shared, agents, local
<1>1. Types /\ SessionInv(s)
  BY DEF Inv
<1>2. pc[s] = "wait" /\ pc'[s] = "listen" /\ NextTarget(s, t) /\ todo'[s] = Ports(s, t)
  BY <1>1 DEF Types
<1>3. Types'
  BY <1>1 DEF Types, Pcs, Before, Over
<1>4. \A u \in Sessions \ {s} : Same(u)
  BY <1>1 DEF Types, Same
<1>5. /\ \A v : Ports(s, v)' = Ports(s, v)
      /\ \A v : NextTarget(s, v)' = NextTarget(s, v)
      /\ Reported(s)' = Reported(s) /\ Forwarded(s)' = Forwarded(s)
  BY DEF Ports, Rest, AgentTargets, NextTarget, Reported, Forwarded
<1>6. Living(s)'
  BY <1>1, <1>2, <1>5 DEF SessionInv, Living, Before, Over
<1>7. Agents(s)'
  BY <1>1, <1>2, <1>5, NextIsOne DEF SessionInv, Agents, ToldToEnd, Before
<1>8. Listening(s)'
  BY <1>1, <1>2, <1>5 DEF SessionInv, Listening
<1>9. Allowing(s)'
  BY <1>1, <1>2, <1>5, NextIsOne DEF SessionInv, Allowing
<1>10. Reporting(s)'
  BY <1>1, <1>2, <1>5 DEF SessionInv, Reporting
<1>11. Adding(s)'
  BY <1>1, <1>2, <1>5 DEF SessionInv, Adding
<1>12. Filed(s)'
  BY <1>1, <1>2, <1>5 DEF SessionInv, Filed
<1>. QED BY <1>1, <1>3, <1>4, <1>6, <1>7, <1>8, <1>9, <1>10, <1>11, <1>12, OneSession DEF SessionInv

LEMMA AgentTimesOutStep ==
    ASSUME Inv, NEW s \in Sessions, NEW t \in Targets, AgentTimesOut(s, t)
    PROVE  Inv'
<1>. USE DEF AgentTimesOut, Goto, Set, shared, agents, local
<1>1. Types /\ SessionInv(s)
  BY DEF Inv
<1>2. pc[s] = "wait" /\ pc'[s] = "stop" /\ NextTarget(s, t) /\ lost'[s] = lost[s] \cup {t}
  BY <1>1 DEF Types
<1>3. Types'
  BY <1>1 DEF Types, Pcs, Before, Over
<1>4. \A u \in Sessions \ {s} : Same(u)
  BY <1>1 DEF Types, Same
<1>5. /\ \A v : Ports(s, v)' = Ports(s, v)
      /\ \A v : NextTarget(s, v)' = NextTarget(s, v)
      /\ Reported(s)' = Reported(s) /\ Forwarded(s)' = Forwarded(s)
  BY DEF Ports, Rest, AgentTargets, NextTarget, Reported, Forwarded
<1>6. Living(s)'
  BY <1>1, <1>2, <1>5 DEF SessionInv, Living, Before, Over
<1>7. Agents(s)'
  BY <1>1, <1>2, <1>5, NextIsOne DEF SessionInv, Agents, ToldToEnd, Before
<1>8. Listening(s)'
  BY <1>1, <1>2, <1>5 DEF SessionInv, Listening
<1>9. Allowing(s)'
  BY <1>1, <1>2, <1>5 DEF SessionInv, Allowing
<1>10. Reporting(s)'
  BY <1>1, <1>2, <1>5 DEF SessionInv, Reporting
<1>11. Adding(s)'
  BY <1>1, <1>2, <1>5 DEF SessionInv, Adding
<1>12. Filed(s)'
  BY <1>1, <1>2, <1>5 DEF SessionInv, Filed
<1>. QED BY <1>1, <1>3, <1>4, <1>6, <1>7, <1>8, <1>9, <1>10, <1>11, <1>12, OneSession DEF SessionInv

LEMMA ListenStep ==
    ASSUME Inv, NEW s \in Sessions, NEW t \in Targets, Listen(s, t)
    PROVE  Inv'
<1>. USE DEF Goto, Set, shared, agents, local
<1>1. Types /\ SessionInv(s)
  BY DEF Inv
<1>2. /\ pc[s] = "listen" /\ NextTarget(s, t) /\ t \notin live[s]
      /\ agent[s][t] \in {"up", "gone"}
  BY <1>1 DEF Listen, NextTarget, Rest, SessionInv, Agents
<1>3. PICK i \in todo[s] :
         /\ \E p \in BindForwardListener(plan[s][i].h) :
              host' = [host EXCEPT ![p] = L(s, t, plan[s][i].c)]
         /\ todo' = [todo EXCEPT ![s] = todo[s] \ {i}]
  BY DEF Listen
<1>4. PICK p \in BindForwardListener(plan[s][i].h) :
         host' = [host EXCEPT ![p] = L(s, t, plan[s][i].c)]
  BY <1>3
<1>5. plan[s][i].c \in allowed[s][t] /\ plan[s][i].c \in HostPorts
  BY <1>1, <1>2 DEF SessionInv, Allowing, Types, Ports
<1>6. /\ p \in HostPorts /\ host[p] = NoOne /\ host'[p] = L(s, t, plan[s][i].c)
      /\ \A q \in HostPorts \ {p} : host'[q] = host[q]
      /\ todo'[s] = todo[s] \ {i}
  BY <1>1, <1>3, <1>4, BoundIsFree DEF Types
<1>7. Types'
  BY <1>1, <1>3, <1>4, <1>5, <1>6, ListenersDiffer DEF Types, Listen
<1>8. \A u \in Sessions \ {s} : Same(u)
  BY <1>1, <1>3, <1>4, <1>5, <1>6, ListenersDiffer DEF Types, Same, Listen
<1>9. /\ agent' = agent /\ allowed' = allowed /\ queue' = queue /\ pc' = pc /\ auto' = auto
      /\ plan' = plan /\ adds' = adds /\ live' = live /\ registry' = registry
      /\ found' = found /\ lost' = lost /\ status' = status
  BY DEF Listen
<1>10. /\ \A v : Ports(s, v)' = Ports(s, v)
      /\ \A v : NextTarget(s, v)' = NextTarget(s, v)
      /\ Reported(s)' = Reported(s) /\ Forwarded(s)' = Forwarded(s)
  BY <1>9 DEF Ports, Rest, AgentTargets, NextTarget, Reported, Forwarded
<1>11. Living(s)'
  BY <1>1, <1>2, <1>3, <1>4, <1>5, <1>6, <1>9, <1>10 DEF SessionInv, Living, Before, Over
<1>12. Agents(s)'
  BY <1>1, <1>9, <1>10 DEF SessionInv, Agents, ToldToEnd
<1>13. Listening(s)'
  <2>. SUFFICES ASSUME NEW q \in HostPorts, NEW d \in HostPorts, NEW v \in Targets,
                        host'[q] = L(s, v, d)
                 PROVE  /\ v \in live[s] \/ (pc[s] = "listen" /\ NextTarget(s, v))
                        /\ agent[s][v] = "gone" \/ (agent[s][v] = "up" /\ d \in allowed[s][v])
    BY <1>9, <1>10 DEF Listening
  <2>1. CASE q = p
    BY <1>2, <1>5, <1>6, <2>1, ListenersDiffer
  <2>2. CASE q # p
    BY <1>1, <1>6, <2>2 DEF SessionInv, Listening
  <2>. QED BY <2>1, <2>2
<1>14. Allowing(s)'
  BY <1>1, <1>2, <1>6, <1>9, <1>10 DEF SessionInv, Allowing
<1>15. Reporting(s)'
  <2>1. \A r \in registry[s] : r.h \in HostPorts /\ r.t \in Targets /\ r.c \in HostPorts
    BY <1>1 DEF Types, Kinds
  <2>. QED BY <1>1, <1>2, <1>6, <1>9, <2>1, ListenersDiffer DEF SessionInv, Reporting
<1>16. Adding(s)'
  <2>1. 1 \in live[s] => t # 1
    BY <1>2
  <2>2. \A q, d \in HostPorts : 1 \in live[s] => (host'[q] = L(s, 1, d) <=> host[q] = L(s, 1, d))
    BY <1>5, <1>6, <2>1, ListenersDiffer, TargetsAssumption
  <2>. QED BY <1>1, <1>9, <1>10, <2>2 DEF SessionInv, Adding
<1>17. Filed(s)'
  BY <1>1, <1>2, <1>3, <1>4, <1>5, <1>6, <1>9, <1>10 DEF SessionInv, Filed
<1>. QED BY <1>1, <1>7, <1>8, <1>11, <1>12, <1>13, <1>14, <1>15, <1>16, <1>17, OneSession DEF SessionInv

LEMMA TargetServedStep ==
    ASSUME Inv, NEW s \in Sessions, NEW t \in Targets, TargetServed(s, t)
    PROVE  Inv'
<1>. USE DEF TargetServed, Goto, Set, shared, agents, local
<1>1. Types /\ SessionInv(s)
  BY DEF Inv
<1>2. /\ pc[s] = "listen" /\ NextTarget(s, t) /\ t \notin live[s] /\ t \in Rest(s)
      /\ pc'[s] = IF Rest(s) = {t} THEN "serve" ELSE "exec"
      /\ live'[s] = live[s] \cup {t}
      /\ agent[s][t] \in {"up", "gone"}
  BY <1>1 DEF NextTarget, Rest, SessionInv, Agents, Types
<1>3. registry'[s] = registry[s] \cup
         {[t |-> t, c |-> host[p].c, h |-> p, src |-> "configured"] :
             p \in Listeners(s, {t}) \ Reported(s)}
  BY <1>1 DEF Record, Types
<1>4. \A r \in registry'[s] \ registry[s] :
         r.t = t /\ r.h \in HostPorts /\ r.c \in HostPorts /\ r.src = "configured"
         /\ r \in Kinds /\ host[r.h] = L(s, t, r.c)
  <2>. SUFFICES ASSUME NEW r \in registry'[s] \ registry[s]
                PROVE  r.t = t /\ r.h \in HostPorts /\ r.c \in HostPorts /\ r.src = "configured"
                       /\ r \in Kinds /\ host[r.h] = L(s, t, r.c)
    OBVIOUS
  <2>1. PICK p \in Listeners(s, {t}) : r = [t |-> t, c |-> host[p].c, h |-> p, src |-> "configured"]
    BY <1>3
  <2>2. PICK c \in HostPorts : p \in HostPorts /\ host[p] = L(s, t, c)
    BY <2>1 DEF Listeners
  <2>. QED BY <2>1, <2>2 DEF L, Kinds
<1>5. Types'
  <2>1. registry' \in [Sessions -> SUBSET Kinds]
    BY <1>1, <1>3, <1>4 DEF Types, Record
  <2>. QED BY <1>1, <2>1 DEF Types, Pcs, Before, Over
<1>6. \A u \in Sessions \ {s} : Same(u)
  BY <1>1 DEF Types, Same, Record
<1>7. auto'[s] = IF t = 1 /\ auto[s] = "off" THEN "asleep" ELSE auto[s]
  BY <1>1 DEF Types
<1>8. \A v : Ports(s, v)' = Ports(s, v)
  BY DEF Ports
<1>9. Rest(s)' = Rest(s) \ {t}
  BY <1>1, <1>2, <1>7, <1>8 DEF Rest, AgentTargets, Types
<1>10. Living(s)'
  BY <1>1, <1>2, <1>3, <1>4, <1>7, <1>8, <1>9 DEF SessionInv, Living, Before, Over
<1>11. Agents(s)'
  <2>. SUFFICES ASSUME NEW v \in Targets \ live'[s]
                PROVE  agent[s][v] = "none"
    BY <1>2 DEF Agents
  <2>1. v # t /\ v \notin live[s]
    BY <1>2
  <2>2. ~NextTarget(s, v)
    BY <1>2, <2>1, NextIsOne
  <2>. QED BY <1>1, <1>2, <2>1, <2>2 DEF SessionInv, Agents
<1>12. Listening(s)'
  <2>1. \A v \in Targets : NextTarget(s, v) => v = t
    BY <1>2, NextIsOne
  <2>. QED BY <1>1, <1>2, <2>1 DEF SessionInv, Listening
<1>13. Allowing(s)'
  BY <1>1, <1>2, <1>3, <1>4, <1>7, <1>8, <1>9 DEF SessionInv, Allowing
<1>14. Reporting(s)'
  BY <1>1, <1>2, <1>3, <1>4, <1>7, <1>8, <1>9 DEF SessionInv, Reporting
<1>15. Adding(s)'
  <2>1. Forwarded(s)' = Forwarded(s) \/ t = 1
    BY <1>4, <1>3 DEF Forwarded
  <2>2. Reported(s) \cup Listeners(s, {t}) \subseteq Reported(s)'
    <3>1. ASSUME NEW p \in Listeners(s, {t}) \ Reported(s)
          PROVE  p \in Reported(s)'
      <4>. DEFINE r == [t |-> t, c |-> host[p].c, h |-> p, src |-> "configured"]
      <4>1. r \in registry'[s] /\ r.h = p
        BY <1>3
      <4>. QED BY <4>1 DEF Reported
    <3>2. Reported(s) \subseteq Reported(s)'
      BY <1>3 DEF Reported
    <3>. QED BY <3>1, <3>2
  <2>3. t = 1 => auto[s] \in {"no", "off"} /\ DOMAIN adds[s] = {}
    BY <1>1, <1>2 DEF SessionInv, Living, Allowing
  <2>4. ASSUME NEW r1 \in registry'[s], NEW r2 \in registry'[s],
               r1.t = r2.t, r1.c = r2.c, r1.src = "auto"
        PROVE  r1 = r2
    <3>1. r1 \in registry[s] /\ r1.t \in live[s]
      BY <1>1, <1>2, <1>4, <2>4 DEF SessionInv, Reporting
    <3>2. r2 \in registry[s]
      BY <1>2, <1>4, <2>4, <3>1
    <3>. QED BY <1>1, <2>4, <3>1, <3>2 DEF SessionInv, Adding
  <2>5. ASSUME 1 \in live'[s], NEW p \in HostPorts \ Reported(s)', NEW c \in HostPorts,
               host[p] = L(s, 1, c)
        PROVE  /\ auto'[s] = "bind" /\ c \notin (Forwarded(s) \cup DOMAIN adds[s])'
               /\ \A q \in HostPorts : host[q] = L(s, 1, c) => q = p
    <3>1. t # 1
      BY <2>2, <2>5 DEF Listeners
    <3>2. 1 \in live[s] /\ p \notin Reported(s)
      BY <1>2, <2>2, <2>5, <3>1
    <3>. QED BY <1>1, <1>7, <2>1, <2>5, <3>1, <3>2 DEF SessionInv, Adding
  <2>6. (DOMAIN adds[s] \cap Forwarded(s))' = {}
    BY <1>1, <2>1, <2>3 DEF SessionInv, Adding
  <2>. QED BY <2>4, <2>5, <2>6 DEF Adding
<1>16. Filed(s)'
  BY <1>1, <1>2, <1>3, <1>4, <1>7, <1>8, <1>9 DEF SessionInv, Filed
<1>. QED BY <1>1, <1>5, <1>6, <1>10, <1>11, <1>12, <1>13, <1>14, <1>15, <1>16, OneSession DEF SessionInv

LEMMA ListenFailsStep ==
    ASSUME Inv, NEW s \in Sessions, NEW t \in Targets, ListenFails(s, t)
    PROVE  Inv'
<1>. USE DEF Goto, Set, shared, agents, local
<1>1. Types /\ SessionInv(s)
  BY DEF Inv
<1>2. /\ NextTarget(s, t) /\ pc[s] = "listen" /\ pc' = [pc EXCEPT ![s] = "stop"]
      /\ host' = Unlisten(Listeners(s, {t})) /\ todo' = [todo EXCEPT ![s] = {}] /\ Shutdown(s, t)
      /\ agent' = agent /\ allowed' = allowed /\ auto' = auto /\ plan' = plan /\ adds' = adds
      /\ live' = live /\ registry' = registry /\ found' = found /\ lost' = lost
      /\ status' = status /\ open' = open
  BY DEF ListenFails
<1>3. /\ pc[s] = "listen" /\ pc'[s] = "stop" /\ NextTarget(s, t) /\ t \notin live[s]
      /\ agent[s][t] \in {"up", "gone"}
  BY <1>1, <1>2 DEF NextTarget, Rest, SessionInv, Agents, Types
<1>4. /\ queue' \in [Sessions -> [Targets -> Seq({"scan", "shutdown"})]]
      /\ \A v \in Targets \ {t} : queue'[s][v] = queue[s][v]
      /\ \A u \in Sessions \ {s} : queue'[u] = queue[u]
      /\ agent[s][t] = "up" => "shutdown" \in Range(queue'[s][t])
      /\ \A v \in Targets : \A i \in DOMAIN queue'[s][v] : queue'[s][v][i] = "scan" =>
            i \in DOMAIN queue[s][v] /\ queue[s][v][i] = "scan"
  BY <1>1, <1>2, ShutdownIs
<1>5. host' \in [HostPorts -> Holders] /\ Dropped(s, {t})
  BY <1>1, <1>2, UnlistenIs
<1>6. Types'
  BY <1>1, <1>2, <1>4, <1>5 DEF Types, Pcs, Before, Over
<1>7. \A u \in Sessions \ {s} : Same(u)
  <2>1. ASSUME NEW u \in Sessions \ {s}
        PROVE  Same(u)
    <3>1. \A p, c \in HostPorts, v \in Targets : host'[p] = L(u, v, c) <=> host[p] = L(u, v, c)
      BY <1>5, OthersListen
    <3>2. pc'[u] = pc[u] /\ todo'[u] = todo[u] /\ queue'[u] = queue[u]
      BY <1>1, <1>2, <1>4 DEF Types
    <3>. QED BY <1>2, <3>1, <3>2 DEF Same
  <2>. QED BY <2>1
<1>8. /\ \A v : Ports(s, v)' = Ports(s, v)
      /\ \A v : NextTarget(s, v)' = NextTarget(s, v)
      /\ Reported(s)' = Reported(s) /\ Forwarded(s)' = Forwarded(s)
  BY <1>2 DEF Ports, Rest, AgentTargets, NextTarget, Reported, Forwarded
<1>9. \A v \in Targets : NextTarget(s, v) => v = t
  BY <1>3, NextIsOne
<1>10. Living(s)'
  BY <1>1, <1>2, <1>3, <1>4, <1>5, <1>8, <1>9 DEF SessionInv, Living, Before, Over
<1>11. Agents(s)'
  <2>1. \A v \in Targets \ live[s] : v # t => agent[s][v] = "none"
    BY <1>1, <1>2, <1>3, <1>9 DEF SessionInv, Agents
  <2>. QED BY <1>2, <1>3, <1>4, <2>1 DEF Agents, ToldToEnd, Before
<1>12. Listening(s)'
  <2>1. \A p, c \in HostPorts, v \in Targets :
           host'[p] = L(s, v, c) => host[p] = L(s, v, c) /\ v # t
    BY <1>5, StillListens
  <2>2. \A p, c \in HostPorts, v \in Targets : host'[p] = L(s, v, c) =>
           v \in live[s] /\ (agent[s][v] = "gone" \/ (agent[s][v] = "up" /\ c \in allowed[s][v]))
    BY <1>1, <1>9, <2>1 DEF SessionInv, Listening
  <2>. QED BY <1>2, <2>2 DEF Listening
<1>13. Allowing(s)'
  BY <1>1, <1>2, <1>3, <1>4 DEF SessionInv, Allowing
<1>14. Reporting(s)'
  <2>1. \A r \in registry[s] :
           /\ r.h \in HostPorts /\ r.t \in Targets /\ r.c \in HostPorts
           /\ r.t \in live[s] /\ host[r.h] = L(s, r.t, r.c) /\ r.t # t
    BY <1>1, <1>2, <1>3 DEF SessionInv, Reporting, Types, Kinds
  <2>2. ASSUME NEW r \in registry[s]
        PROVE  host'[r.h] = L(s, r.t, r.c)
    BY <1>5, <2>1 DEF Dropped
  <2>. QED BY <1>2, <2>1, <2>2 DEF Reporting
<1>15. Adding(s)'
  <2>1. \A p, d \in HostPorts : host'[p] = L(s, 1, d) => host[p] = L(s, 1, d)
    BY <1>5, TargetsAssumption, StillListens
  <2>. QED BY <1>1, <1>2, <1>8, <2>1 DEF SessionInv, Adding
<1>16. Filed(s)'
  BY <1>1, <1>2, <1>3, <1>4, <1>5, <1>8, <1>9 DEF SessionInv, Filed
<1>. QED BY <1>1, <1>6, <1>7, <1>10, <1>11, <1>12, <1>13, <1>14, <1>15, <1>16, OneSession DEF SessionInv

LEMMA StopTargetStep ==
    ASSUME Inv, NEW s \in Sessions, NEW t \in Targets, StopTarget(s, t)
    PROVE  Inv'
<1>. USE DEF StopTarget, NoAdds, Goto, Set, shared, agents, local
<1>1. Types /\ SessionInv(s)
  BY DEF Inv
<1>2. /\ pc[s] = "stop" /\ pc' = pc /\ t \in live[s] /\ live'[s] = live[s] \ {t}
      /\ 1 \notin live'[s] /\ agent[s][t] \in {"up", "gone"}
      /\ found'[s] = {} /\ DOMAIN adds'[s] = {}
  BY <1>1, TargetsAssumption DEF SessionInv, Living, Types
<1>3. auto'[s] \in {"no", "off"}
  BY <1>1, <1>2 DEF SessionInv, Living, Types
<1>4. /\ queue' \in [Sessions -> [Targets -> Seq({"scan", "shutdown"})]]
      /\ \A v \in Targets \ {t} : queue'[s][v] = queue[s][v]
      /\ \A u \in Sessions \ {s} : queue'[u] = queue[u]
      /\ agent[s][t] = "up" => "shutdown" \in Range(queue'[s][t])
      /\ \A v \in Targets : \A i \in DOMAIN queue'[s][v] : queue'[s][v][i] = "scan" =>
            i \in DOMAIN queue[s][v] /\ queue[s][v][i] = "scan"
  BY <1>1, ShutdownIs
<1>5. host' \in [HostPorts -> Holders] /\ Dropped(s, {t})
  BY <1>1, UnlistenIs DEF Stopped
<1>6. Types'
  BY <1>1, <1>4, <1>5 DEF Types, Pcs, Before, Over
<1>7. \A u \in Sessions \ {s} : Same(u)
  BY <1>1, <1>4, <1>5, OthersListen DEF Types, Same
<1>8. Living(s)'
  BY <1>1, <1>2, <1>3, <1>4, <1>5 DEF SessionInv, Living, Before, Over
<1>9. Agents(s)'
  <2>1. \A v \in Targets \ live[s] : ToldToEnd(s, v)
    BY <1>1, <1>2 DEF SessionInv, Agents
  <2>. QED BY <1>2, <1>4, <2>1 DEF Agents, ToldToEnd, Before
<1>10. Listening(s)'
  BY <1>1, <1>2, <1>5, StillListens DEF SessionInv, Listening
<1>11. Allowing(s)'
  BY <1>1, <1>2, <1>4 DEF SessionInv, Allowing
<1>12. Reporting(s)'
  <2>1. \A r \in registry[s] : r.h \in HostPorts /\ r.t \in Targets /\ r.c \in HostPorts
    BY <1>1 DEF Types, Kinds
  <2>. QED BY <1>1, <1>2, <1>5, <2>1 DEF SessionInv, Reporting, Dropped
<1>13. Adding(s)'
  BY <1>1, <1>2 DEF SessionInv, Adding
<1>14. Filed(s)'
  BY <1>1, <1>2, <1>3, <1>4, <1>5 DEF SessionInv, Filed
<1>. QED BY <1>1, <1>6, <1>7, <1>8, <1>9, <1>10, <1>11, <1>12, <1>13, <1>14, OneSession DEF SessionInv

LEMMA StopStatusStep ==
    ASSUME Inv, NEW s \in Sessions, StopStatus(s)
    PROVE  Inv'
<1>. USE DEF StopStatus, Goto, Set, shared, agents, local
<1>1. Types /\ SessionInv(s)
  BY DEF Inv
<1>2. pc[s] = "stop" /\ pc'[s] = "exit" /\ live[s] = {} /\ status'[s] = "none" /\ registry'[s] = {}
  BY <1>1 DEF Types
<1>3. Types'
  BY <1>1 DEF Types, Pcs, Before, Over
<1>4. \A u \in Sessions \ {s} : Same(u)
  BY <1>1 DEF Types, Same
<1>5. Living(s)'
  BY <1>1, <1>2 DEF SessionInv, Living, Before, Over
<1>6. Agents(s)'
  BY <1>1, <1>2 DEF SessionInv, Agents, ToldToEnd, Before
<1>7. Listening(s)'
  BY <1>1, <1>2 DEF SessionInv, Listening
<1>8. Allowing(s)'
  BY <1>1, <1>2 DEF SessionInv, Allowing
<1>9. Reporting(s)'
  BY <1>1, <1>2 DEF SessionInv, Reporting
<1>10. Adding(s)'
  BY <1>1, <1>2 DEF SessionInv, Adding, Living, Allowing, Forwarded
<1>11. Filed(s)'
  BY <1>1, <1>2 DEF SessionInv, Filed
<1>. QED BY <1>1, <1>3, <1>4, <1>5, <1>6, <1>7, <1>8, <1>9, <1>10, <1>11, OneSession DEF SessionInv

LEMMA ExitStep ==
    ASSUME Inv, NEW s \in Sessions, Exit(s)
    PROVE  Inv'
<1>. USE DEF Exit, Goto, Set, shared, agents, local
<1>1. Types /\ SessionInv(s)
  BY DEF Inv
<1>2. pc[s] = "exit" /\ pc'[s] = "done" /\ live[s] = {} /\ auto'[s] = "no"
  BY <1>1 DEF Types, SessionInv, Living, Over
<1>3. Types'
  BY <1>1 DEF Types, Pcs, Before, Over
<1>4. \A u \in Sessions \ {s} : Same(u)
  BY <1>1 DEF Types, Same
<1>5. Living(s)'
  BY <1>1, <1>2 DEF SessionInv, Living, Before, Over
<1>6. Agents(s)'
  BY <1>1, <1>2 DEF SessionInv, Agents, ToldToEnd, Before
<1>7. Listening(s)'
  BY <1>1, <1>2 DEF SessionInv, Listening
<1>8. Allowing(s)'
  BY <1>1, <1>2 DEF SessionInv, Living, Allowing
<1>9. Reporting(s)'
  BY <1>1, <1>2 DEF SessionInv, Reporting
<1>10. Adding(s)'
  BY <1>1, <1>2 DEF SessionInv, Adding, Living, Forwarded
<1>11. Filed(s)'
  BY <1>1, <1>2 DEF SessionInv, Filed
<1>. QED BY <1>1, <1>3, <1>4, <1>5, <1>6, <1>7, <1>8, <1>9, <1>10, <1>11, OneSession DEF SessionInv

LEMMA CrashStep ==
    ASSUME Inv, NEW s \in Sessions, Crash(s)
    PROVE  Inv'
<1>. USE DEF Crash, NoAdds, Goto, Set, shared, agents, local
<1>1. Types /\ SessionInv(s)
  BY DEF Inv
<1>2. /\ pc'[s] = "killed" /\ live'[s] = {} /\ auto'[s] = "no" /\ registry'[s] = {} /\ found'[s] = {}
      /\ DOMAIN adds'[s] = {}
  BY <1>1 DEF Types
<1>3. host' \in [HostPorts -> Holders] /\ Dropped(s, Targets)
  BY <1>1, UnlistenIs
<1>4. Types'
  BY <1>1, <1>3 DEF Types, Pcs, Over
<1>5. \A u \in Sessions \ {s} : Same(u)
  BY <1>1, <1>3, OthersListen DEF Types, Same
<1>6. Living(s)'
  BY <1>1, <1>2, <1>3 DEF SessionInv, Living, Before, Over
<1>7. Agents(s)'
  BY <1>1, <1>2, <1>3 DEF SessionInv, Agents, ToldToEnd, Before
<1>8. Listening(s)'
  BY <1>1, <1>2, <1>3, StillListens DEF SessionInv, Listening
<1>9. Allowing(s)'
  BY <1>1, <1>2 DEF SessionInv, Allowing
<1>10. Reporting(s)'
  BY <1>1, <1>2, <1>3 DEF SessionInv, Reporting
<1>11. Adding(s)'
  BY <1>1, <1>2, <1>3 DEF SessionInv, Adding, Forwarded
<1>12. Filed(s)'
  BY <1>1, <1>2, <1>3 DEF SessionInv, Filed
<1>. QED BY <1>1, <1>4, <1>5, <1>6, <1>7, <1>8, <1>9, <1>10, <1>11, <1>12, OneSession DEF SessionInv

LEMMA ScanStep ==
    ASSUME Inv, NEW s \in Sessions, Scan(s)
    PROVE  Inv'
<1>. USE DEF Scan, Goto, Set, shared, agents, local
<1>1. Types /\ SessionInv(s)
  BY DEF Inv
<1>2. auto[s] = "asleep" /\ auto'[s] = "asked" /\ 1 \in live[s] /\ 1 \in Targets
  BY <1>1, TargetsAssumption DEF SessionInv, Living, Types
<1>3. /\ Append(queue[s][1], "scan") \in Seq({"scan", "shutdown"})
  BY <1>1, <1>2 DEF Types
<1>4. /\ queue' \in [Sessions -> [Targets -> Seq({"scan", "shutdown"})]]
      /\ \A v \in Targets \ {1} : queue'[s][v] = queue[s][v]
      /\ \A u \in Sessions \ {s} : queue'[u] = queue[u]
  BY <1>1, <1>2, <1>3, QueueSet
<1>5. Types'
  BY <1>1, <1>4 DEF Types
<1>6. \A u \in Sessions \ {s} : Same(u)
  BY <1>1, <1>4 DEF Types, Same
<1>7. /\ \A v : Ports(s, v)' = Ports(s, v)
      /\ \A v : NextTarget(s, v)' = NextTarget(s, v)
      /\ Reported(s)' = Reported(s) /\ Forwarded(s)' = Forwarded(s)
  BY <1>1, <1>2 DEF Ports, Rest, AgentTargets, NextTarget, Types, Reported, Forwarded
<1>8. Living(s)'
  BY <1>1, <1>2, <1>3, <1>4, <1>7 DEF SessionInv, Living, Before, Over
<1>9. Agents(s)'
  <2>1. \A v \in Targets \ live[s] : queue'[s][v] = queue[s][v]
    BY <1>2, <1>4
  <2>. QED BY <1>1, <1>7, <2>1 DEF SessionInv, Agents, ToldToEnd
<1>10. Listening(s)'
  BY <1>1, <1>2, <1>3, <1>4, <1>7 DEF SessionInv, Listening
<1>11. Allowing(s)'
  <2>1. \A v \in Targets : \A i \in DOMAIN queue'[s][v] : queue'[s][v][i] = "scan" => v = 1
    BY <1>1, <1>4 DEF SessionInv, Allowing
  <2>. QED BY <1>1, <1>2, <1>7, <2>1 DEF SessionInv, Allowing
<1>12. Reporting(s)'
  BY <1>1, <1>2, <1>3, <1>4, <1>7 DEF SessionInv, Reporting
<1>13. Adding(s)'
  BY <1>1, <1>2, <1>3, <1>4, <1>7 DEF SessionInv, Adding
<1>14. Filed(s)'
  BY <1>1, <1>2, <1>3, <1>4, <1>7 DEF SessionInv, Filed
<1>. QED BY <1>1, <1>5, <1>6, <1>8, <1>9, <1>10, <1>11, <1>12, <1>13, <1>14, OneSession DEF SessionInv

LEMMA ScanFailsStep ==
    ASSUME Inv, NEW s \in Sessions, ScanFails(s)
    PROVE  Inv'
<1>. USE DEF ScanFails, Goto, Set, shared, agents, local
<1>1. Types /\ SessionInv(s)
  BY DEF Inv
<1>2. auto[s] = "asked" /\ auto'[s] = "asleep"
  BY <1>1 DEF Types
<1>3. Types'
  BY <1>1 DEF Types, Pcs, Before, Over
<1>4. \A u \in Sessions \ {s} : Same(u)
  BY <1>1 DEF Types, Same
<1>5. /\ \A v : Ports(s, v)' = Ports(s, v)
      /\ \A v : NextTarget(s, v)' = NextTarget(s, v)
      /\ Reported(s)' = Reported(s) /\ Forwarded(s)' = Forwarded(s)
  BY <1>1, <1>2 DEF Ports, Rest, AgentTargets, NextTarget, Types, Reported, Forwarded
<1>6. Living(s)'
  BY <1>1, <1>2, <1>5 DEF SessionInv, Living, Before, Over
<1>7. Agents(s)'
  BY <1>1, <1>2, <1>5 DEF SessionInv, Agents, ToldToEnd, Before
<1>8. Listening(s)'
  BY <1>1, <1>2, <1>5 DEF SessionInv, Listening
<1>9. Allowing(s)'
  BY <1>1, <1>2, <1>5 DEF SessionInv, Allowing
<1>10. Reporting(s)'
  BY <1>1, <1>2, <1>5 DEF SessionInv, Reporting
<1>11. Adding(s)'
  BY <1>1, <1>2, <1>5 DEF SessionInv, Adding
<1>12. Filed(s)'
  BY <1>1, <1>2, <1>5 DEF SessionInv, Filed
<1>. QED BY <1>1, <1>3, <1>4, <1>6, <1>7, <1>8, <1>9, <1>10, <1>11, <1>12, OneSession DEF SessionInv

LEMMA AddDetectedStep ==
    ASSUME Inv, NEW s \in Sessions, AddDetected(s)
    PROVE  Inv'
<1>. USE DEF Goto, Set, shared, agents, local
<1>1. Types /\ SessionInv(s)
  BY DEF Inv
<1>2. /\ auto[s] = "answered" /\ auto' \in {[auto EXCEPT ![s] = "asleep"], [auto EXCEPT ![s] = "bind"]}
      /\ found' = [found EXCEPT ![s] = {}]
      /\ \/ adds' = adds /\ auto' = [auto EXCEPT ![s] = "asleep"]
         \/ /\ \E f : adds' = [adds EXCEPT ![s] = f] /\ DOMAIN f = NewPorts(s)
            /\ auto' = [auto EXCEPT ![s] = "bind"]
      /\ host' = host /\ open' = open /\ agent' = agent /\ allowed' = allowed /\ queue' = queue
      /\ pc' = pc /\ plan' = plan /\ todo' = todo /\ live' = live /\ registry' = registry
      /\ lost' = lost /\ status' = status
  <2>. DEFINE f == [c \in NewPorts(s) |-> Additions(s)[c]]
  <2>1. CASE NewPorts(s) = {} \/ ProbeFails(Additions(s))
    BY <2>1 DEF AddDetected
  <2>2. CASE ~(NewPorts(s) = {} \/ ProbeFails(Additions(s)))
    <3>1. DOMAIN f = NewPorts(s)
      OBVIOUS
    <3>2. adds' = [adds EXCEPT ![s] = f]
      BY <2>2 DEF AddDetected
    <3>. QED BY <2>2, <3>1, <3>2 DEF AddDetected
  <2>. QED BY <2>1, <2>2
<1>3. /\ auto'[s] \in {"asleep", "bind"} /\ found'[s] = {} /\ DOMAIN adds[s] = {}
      /\ DOMAIN adds'[s] \in {{}, NewPorts(s)} /\ (DOMAIN adds'[s] # {} => auto'[s] = "bind")
  BY <1>1, <1>2 DEF Types, SessionInv, Allowing
<1>4. Types'
  BY <1>1, <1>2 DEF Types
<1>5. \A u \in Sessions \ {s} : Same(u)
  BY <1>1, <1>2 DEF Types, Same
<1>6. /\ \A v : Ports(s, v)' = Ports(s, v)
      /\ \A v : NextTarget(s, v)' = NextTarget(s, v)
      /\ Reported(s)' = Reported(s) /\ Forwarded(s)' = Forwarded(s)
  BY <1>1, <1>2, <1>3 DEF Ports, Rest, AgentTargets, NextTarget, Types, Reported, Forwarded
<1>7. Living(s)'
  BY <1>1, <1>2, <1>3, <1>6 DEF SessionInv, Living, Before, Over
<1>8. Agents(s)'
  BY <1>1, <1>2, <1>3, <1>6 DEF SessionInv, Agents, ToldToEnd, Before
<1>9. Listening(s)'
  BY <1>1, <1>2, <1>3, <1>6 DEF SessionInv, Listening
<1>10. Allowing(s)'
  BY <1>1, <1>2, <1>3, <1>6 DEF SessionInv, Allowing, NewPorts
<1>11. Reporting(s)'
  BY <1>1, <1>2, <1>3, <1>6 DEF SessionInv, Reporting
<1>12. Adding(s)'
  BY <1>1, <1>2, <1>3, <1>6 DEF SessionInv, Adding, NewPorts
<1>13. Filed(s)'
  BY <1>1, <1>2, <1>3, <1>6 DEF SessionInv, Filed
<1>. QED BY <1>1, <1>4, <1>5, <1>7, <1>8, <1>9, <1>10, <1>11, <1>12, <1>13, OneSession DEF SessionInv

LEMMA ListenAutoStep ==
    ASSUME Inv, NEW s \in Sessions, ListenAuto(s)
    PROVE  Inv'
<1>. USE DEF Goto, Set, shared, agents, local
<1>1. Types /\ SessionInv(s)
  BY DEF Inv
<1>2. PICK c \in DOMAIN adds[s] :
         /\ \E p \in BindForwardListener(adds[s][c]) : host' = [host EXCEPT ![p] = L(s, 1, c)]
         /\ adds' = [adds EXCEPT ![s] = [d \in DOMAIN adds[s] \ {c} |-> adds[s][d]]]
  BY DEF ListenAuto
<1>3. PICK p \in BindForwardListener(adds[s][c]) : host' = [host EXCEPT ![p] = L(s, 1, c)]
  BY <1>2
<1>4. /\ auto[s] = "bind" /\ 1 \in live[s] /\ 1 \in Targets
      /\ c \in allowed[s][1] /\ c \in HostPorts /\ c \notin Forwarded(s)
      /\ agent[s][1] \in {"up", "gone"}
  BY <1>1, TargetsAssumption DEF SessionInv, Living, Allowing, Adding, Types, ListenAuto
<1>5. /\ p \in HostPorts /\ host[p] = NoOne /\ host'[p] = L(s, 1, c)
      /\ \A q \in HostPorts \ {p} : host'[q] = host[q]
      /\ DOMAIN adds'[s] = DOMAIN adds[s] \ {c}
  BY <1>1, <1>2, <1>3, BoundIsFree DEF Types
<1>6. /\ agent' = agent /\ allowed' = allowed /\ queue' = queue /\ pc' = pc /\ auto' = auto
      /\ plan' = plan /\ todo' = todo /\ live' = live /\ registry' = registry
      /\ found' = found /\ lost' = lost /\ status' = status /\ open' = open
  BY DEF ListenAuto
<1>7. Types'
  BY <1>1, <1>2, <1>3, <1>4, <1>5, <1>6, ListenersDiffer DEF Types
<1>8. \A u \in Sessions \ {s} : Same(u)
  BY <1>1, <1>2, <1>3, <1>4, <1>5, <1>6, ListenersDiffer DEF Types, Same
<1>9. /\ \A v : Ports(s, v)' = Ports(s, v)
      /\ \A v : NextTarget(s, v)' = NextTarget(s, v)
      /\ Reported(s)' = Reported(s) /\ Forwarded(s)' = Forwarded(s)
  BY <1>6 DEF Ports, Rest, AgentTargets, NextTarget, Reported, Forwarded
<1>10. \A r \in registry[s] : r.h \in HostPorts /\ r.t \in Targets /\ r.c \in HostPorts
  BY <1>1 DEF Types, Kinds
<1>11. p \notin Reported(s)
  BY <1>1, <1>4, <1>5, <1>10, ListenersDiffer DEF SessionInv, Reporting, Reported
<1>12. \A q \in HostPorts : host[q] # L(s, 1, c)
  <2>. SUFFICES ASSUME NEW q \in HostPorts, host[q] = L(s, 1, c)
                PROVE  FALSE
    OBVIOUS
  <2>1. PICK r \in registry[s] : r.h = q
    BY <1>1, <1>4 DEF SessionInv, Adding, Reported
  <2>2. host[q] = L(s, r.t, r.c)
    BY <1>1, <1>4, <2>1 DEF SessionInv, Reporting
  <2>3. r.t = 1 /\ r.c = c
    BY <1>4, <1>10, <2>1, <2>2, ListenersDiffer
  <2>. QED BY <1>4, <2>1, <2>3 DEF Forwarded
<1>13. Living(s)'
  BY <1>1, <1>6 DEF SessionInv, Living
<1>14. Agents(s)'
  BY <1>1, <1>6, <1>9 DEF SessionInv, Agents, ToldToEnd
<1>15. Listening(s)'
  <2>. SUFFICES ASSUME NEW q \in HostPorts, NEW d \in HostPorts, NEW v \in Targets,
                        host'[q] = L(s, v, d)
                 PROVE  /\ v \in live[s] \/ (pc[s] = "listen" /\ NextTarget(s, v))
                        /\ agent[s][v] = "gone" \/ (agent[s][v] = "up" /\ d \in allowed[s][v])
    BY <1>6, <1>9 DEF Listening
  <2>1. CASE q = p
    BY <1>4, <1>5, <2>1, ListenersDiffer
  <2>2. CASE q # p
    BY <1>1, <1>5, <2>2 DEF SessionInv, Listening
  <2>. QED BY <2>1, <2>2
<1>16. Allowing(s)'
  BY <1>1, <1>4, <1>5, <1>6, <1>9 DEF SessionInv, Allowing
<1>17. Reporting(s)'
  <2>1. \A r \in registry[s] : r.h # p
    BY <1>11 DEF Reported
  <2>. QED BY <1>1, <1>5, <1>6, <1>10, <2>1 DEF SessionInv, Reporting
<1>18. Adding(s)'
  <2>1. ASSUME NEW q \in HostPorts \ Reported(s), NEW d \in HostPorts, host'[q] = L(s, 1, d)
        PROVE  /\ d \notin Forwarded(s) \cup DOMAIN adds'[s]
               /\ \A o \in HostPorts : host'[o] = L(s, 1, d) => o = q
    <3>1. CASE q = p
      <4>1. d = c
        BY <1>4, <1>5, <2>1, <3>1, ListenersDiffer
      <4>. QED BY <1>4, <1>5, <1>12, <3>1, <4>1
    <3>2. CASE q # p
      <4>1. /\ host[q] = L(s, 1, d) /\ d \notin Forwarded(s) \cup DOMAIN adds[s]
            /\ \A o \in HostPorts : host[o] = L(s, 1, d) => o = q
        BY <1>1, <1>4, <1>5, <2>1, <3>2 DEF SessionInv, Adding
      <4>2. host'[p] # L(s, 1, d)
        BY <1>4, <1>5, <4>1, ListenersDiffer
      <4>. QED BY <1>5, <4>1, <4>2
    <3>. QED BY <3>1, <3>2
  <2>2. DOMAIN adds'[s] \cap Forwarded(s) = {}
    BY <1>1, <1>5 DEF SessionInv, Adding
  <2>. QED BY <1>1, <1>4, <1>6, <1>9, <2>1, <2>2 DEF SessionInv, Adding
<1>19. Filed(s)'
  BY <1>1, <1>2, <1>3, <1>4, <1>5, <1>6, <1>9, <1>10, <1>11, <1>12 DEF SessionInv, Filed
<1>. QED BY <1>1, <1>7, <1>8, <1>13, <1>14, <1>15, <1>16, <1>17, <1>18, <1>19, OneSession DEF SessionInv

LEMMA ListenAutoFailsStep ==
    ASSUME Inv, NEW s \in Sessions, ListenAutoFails(s)
    PROVE  Inv'
<1>. USE DEF Goto, Set, shared, agents, local
<1>1. Types /\ SessionInv(s)
  BY DEF Inv
<1>2. /\ auto[s] = "bind" /\ host' = Unlisten(Listeners(s, {1}) \ Reported(s))
      /\ adds' = [adds EXCEPT ![s] = NoAdds] /\ auto' = [auto EXCEPT ![s] = "asleep"]
      /\ agent' = agent /\ allowed' = allowed /\ queue' = queue /\ pc' = pc /\ plan' = plan
      /\ todo' = todo /\ live' = live /\ registry' = registry /\ found' = found
      /\ lost' = lost /\ status' = status /\ open' = open
  BY DEF ListenAutoFails
<1>3. /\ auto'[s] = "asleep" /\ DOMAIN adds'[s] = {} /\ 1 \in live[s]
  BY <1>1, <1>2 DEF Types, SessionInv, Living, NoAdds
<1>4. /\ host' \in [HostPorts -> Holders]
      /\ \A p \in HostPorts :
            host'[p] = IF p \in Listeners(s, {1}) \ Reported(s) THEN NoOne ELSE host[p]
  BY <1>1, <1>2 DEF Types, Unlisten, Holders
<1>5. \A p \in HostPorts \ Reported(s), c \in HostPorts : host'[p] # L(s, 1, c)
  BY <1>4, ListenersDiffer, TargetsAssumption DEF Listeners
<1>6. \A p, c \in HostPorts, v \in Targets : host'[p] = L(s, v, c) => host[p] = L(s, v, c)
  BY <1>4, ListenersDiffer
<1>7. \A u \in Sessions \ {s}, p, c \in HostPorts, v \in Targets :
         host'[p] = L(u, v, c) <=> host[p] = L(u, v, c)
  <2>. SUFFICES ASSUME NEW u \in Sessions \ {s}, NEW p \in HostPorts, NEW c \in HostPorts,
                       NEW v \in Targets
                PROVE  host'[p] = L(u, v, c) <=> host[p] = L(u, v, c)
    OBVIOUS
  <2>1. L(u, v, c) # NoOne
    BY ListenersDiffer
  <2>2. host[p] = L(u, v, c) => p \notin Listeners(s, {1})
    BY ListenersDiffer, TargetsAssumption DEF Listeners
  <2>. QED BY <1>4, <2>1, <2>2
<1>8. Types'
  BY <1>1, <1>2, <1>4 DEF Types
<1>9. \A u \in Sessions \ {s} : Same(u)
  BY <1>1, <1>2, <1>7 DEF Types, Same
<1>10. /\ \A v : Ports(s, v)' = Ports(s, v)
      /\ \A v : NextTarget(s, v)' = NextTarget(s, v)
      /\ Reported(s)' = Reported(s) /\ Forwarded(s)' = Forwarded(s)
  BY <1>1, <1>2, <1>3 DEF Ports, Rest, AgentTargets, NextTarget, Types, Reported, Forwarded
<1>11. Living(s)'
  BY <1>1, <1>2, <1>3 DEF SessionInv, Living
<1>12. Agents(s)'
  BY <1>1, <1>2, <1>10 DEF SessionInv, Agents, ToldToEnd
<1>13. Listening(s)'
  BY <1>1, <1>2, <1>6, <1>10 DEF SessionInv, Listening
<1>14. Allowing(s)'
  BY <1>1, <1>2, <1>3, <1>10 DEF SessionInv, Allowing
<1>15. Reporting(s)'
  <2>1. \A r \in registry[s] : r.h \in HostPorts /\ r.h \in Reported(s)
    BY <1>1 DEF Types, Kinds, Reported
  <2>. QED BY <1>1, <1>2, <1>4, <2>1 DEF SessionInv, Reporting
<1>16. Adding(s)'
  BY <1>1, <1>2, <1>3, <1>5, <1>10 DEF SessionInv, Adding
<1>17. Filed(s)'
  BY <1>1, <1>2, <1>3, <1>4, <1>5, <1>6, <1>7, <1>10 DEF SessionInv, Filed
<1>. QED BY <1>1, <1>8, <1>9, <1>11, <1>12, <1>13, <1>14, <1>15, <1>16, <1>17, OneSession DEF SessionInv

LEMMA AutoServedStep ==
    ASSUME Inv, NEW s \in Sessions, AutoServed(s)
    PROVE  Inv'
<1>. USE DEF AutoServed, Goto, Set, shared, agents, local
<1>1. Types /\ SessionInv(s)
  BY DEF Inv
<1>2. /\ auto[s] = "bind" /\ DOMAIN adds[s] = {} /\ auto'[s] = "asleep" /\ 1 \in live[s]
  BY <1>1 DEF SessionInv, Living, Types
<1>3. registry'[s] = registry[s] \cup
         {[t |-> 1, c |-> host[p].c, h |-> p, src |-> "auto"] :
             p \in Listeners(s, {1}) \ Reported(s)}
  BY <1>1 DEF Record, Types
<1>4. \A r \in registry'[s] \ registry[s] :
         /\ r.t = 1 /\ r.h \in HostPorts \ Reported(s) /\ r.c \in HostPorts /\ r.src = "auto"
         /\ r \in Kinds /\ host[r.h] = L(s, 1, r.c)
         /\ r = [t |-> 1, c |-> r.c, h |-> r.h, src |-> "auto"]
  <2>. SUFFICES ASSUME NEW r \in registry'[s] \ registry[s]
                PROVE  /\ r.t = 1 /\ r.h \in HostPorts \ Reported(s) /\ r.c \in HostPorts
                       /\ r.src = "auto" /\ r \in Kinds /\ host[r.h] = L(s, 1, r.c)
                       /\ r = [t |-> 1, c |-> r.c, h |-> r.h, src |-> "auto"]
    OBVIOUS
  <2>1. PICK p \in Listeners(s, {1}) \ Reported(s) :
           r = [t |-> 1, c |-> host[p].c, h |-> p, src |-> "auto"]
    BY <1>3
  <2>2. PICK c \in HostPorts : p \in HostPorts /\ host[p] = L(s, 1, c)
    BY <2>1 DEF Listeners
  <2>. QED BY <2>1, <2>2, TargetsAssumption DEF L, Kinds
<1>5. Types'
  <2>1. registry' \in [Sessions -> SUBSET Kinds]
    BY <1>1, <1>3, <1>4 DEF Types, Record
  <2>. QED BY <1>1, <2>1 DEF Types
<1>6. \A u \in Sessions \ {s} : Same(u)
  BY <1>1 DEF Types, Same, Record
<1>7. /\ \A v : Ports(s, v)' = Ports(s, v)
      /\ \A v : NextTarget(s, v)' = NextTarget(s, v)
  BY <1>1, <1>2 DEF Ports, Rest, AgentTargets, NextTarget, Types
<1>8. Living(s)'
  BY <1>1, <1>2, <1>3, <1>4, <1>7 DEF SessionInv, Living, Before, Over
<1>9. Agents(s)'
  BY <1>1, <1>2, <1>3, <1>4, <1>7 DEF SessionInv, Agents, ToldToEnd, Before
<1>10. Listening(s)'
  BY <1>1, <1>2, <1>3, <1>4, <1>7 DEF SessionInv, Listening
<1>11. Allowing(s)'
  BY <1>1, <1>2, <1>3, <1>4, <1>7 DEF SessionInv, Allowing
<1>12. Reporting(s)'
  BY <1>1, <1>2, <1>3, <1>4, <1>7 DEF SessionInv, Reporting
<1>13. Adding(s)'
  <2>1. Listeners(s, {1}) \subseteq Reported(s)'
    <3>1. ASSUME NEW p \in Listeners(s, {1}) \ Reported(s)
          PROVE  p \in Reported(s)'
      <4>. DEFINE r == [t |-> 1, c |-> host[p].c, h |-> p, src |-> "auto"]
      <4>1. r \in registry'[s] /\ r.h = p
        BY <1>3
      <4>. QED BY <4>1 DEF Reported
    <3>2. Reported(s) \subseteq Reported(s)'
      BY <1>3 DEF Reported
    <3>. QED BY <3>1, <3>2
  <2>2. \A r \in registry'[s] \ registry[s] :
           /\ r.c \notin Forwarded(s)
           /\ \A q \in HostPorts : host[q] = L(s, 1, r.c) => q = r.h
    BY <1>1, <1>2, <1>4 DEF SessionInv, Adding
  <2>3. ASSUME NEW r1 \in registry'[s], NEW r2 \in registry'[s],
               r1.t = r2.t, r1.c = r2.c, r1.src = "auto"
        PROVE  r1 = r2
    <3>1. CASE r1 \in registry[s] /\ r2 \in registry[s]
      BY <1>1, <2>3, <3>1 DEF SessionInv, Adding
    <3>2. CASE r1 \notin registry[s] /\ r2 \notin registry[s]
      <4>1. r1.h = r2.h
        BY <1>4, <2>2, <2>3, <3>2
      <4>. QED BY <1>4, <2>3, <3>2, <4>1
    <3>3. CASE r1 \notin registry[s] /\ r2 \in registry[s]
      BY <1>4, <2>2, <2>3, <3>3 DEF Forwarded
    <3>4. CASE r1 \in registry[s] /\ r2 \notin registry[s]
      BY <1>4, <2>2, <2>3, <3>4 DEF Forwarded
    <3>. QED BY <3>1, <3>2, <3>3, <3>4
  <2>4. \A p \in HostPorts \ Reported(s)', c \in HostPorts : host[p] # L(s, 1, c)
    BY <2>1 DEF Listeners
  <2>. QED BY <1>2, <2>3, <2>4 DEF Adding
<1>14. Filed(s)'
  BY <1>1, <1>2, <1>3, <1>4, <1>7 DEF SessionInv, Filed
<1>. QED BY <1>1, <1>5, <1>6, <1>8, <1>9, <1>10, <1>11, <1>12, <1>13, <1>14, OneSession DEF SessionInv

LEMMA AgentStartsStep ==
    ASSUME Inv, NEW s \in Sessions, NEW t \in Targets, AgentStarts(s, t)
    PROVE  Inv'
<1>. USE DEF AgentStarts, Goto, Set, shared, agents, local
<1>1. Types /\ SessionInv(s)
  BY DEF Inv
<1>2. agent[s][t] = "starting" /\ t \notin live[s] /\ live[s] \subseteq Targets
  BY <1>1 DEF Types, SessionInv, Living
<1>3. /\ agent' \in [Sessions -> [Targets -> AgentStates]]
      /\ agent'[s][t] = "up"
      /\ \A v \in Targets \ {t} : agent'[s][v] = agent[s][v]
      /\ \A u \in Sessions \ {s} : agent'[u] = agent[u]
  <2>1. "up" \in AgentStates
    BY DEF AgentStates
  <2>. QED BY <1>1, <2>1, AgentSet
<1>4. Types'
  BY <1>1, <1>3 DEF Types
<1>5. \A u \in Sessions \ {s} : Same(u)
  BY <1>3 DEF Same
<1>6. /\ \A v : Ports(s, v)' = Ports(s, v)
      /\ \A v : NextTarget(s, v)' = NextTarget(s, v)
      /\ Reported(s)' = Reported(s) /\ Forwarded(s)' = Forwarded(s)
  BY DEF Ports, Rest, AgentTargets, NextTarget, Reported, Forwarded
<1>7. Living(s)'
  BY <1>1, <1>2, <1>3 DEF SessionInv, Living
<1>8. Agents(s)'
  BY <1>1, <1>2, <1>3, <1>6 DEF SessionInv, Agents, ToldToEnd, Before
<1>9. Listening(s)'
  BY <1>1, <1>2, <1>3, <1>6 DEF SessionInv, Listening
<1>10. Allowing(s)'
  BY <1>1, <1>2, <1>3, <1>6 DEF SessionInv, Allowing
<1>11. Reporting(s)'
  BY <1>1, <1>2, <1>3, <1>6 DEF SessionInv, Reporting
<1>12. Adding(s)'
  BY <1>1, <1>2, <1>3, <1>6 DEF SessionInv, Adding
<1>13. Filed(s)'
  BY <1>1, <1>2, <1>3, <1>6 DEF SessionInv, Filed
<1>. QED BY <1>1, <1>4, <1>5, <1>7, <1>8, <1>9, <1>10, <1>11, <1>12, <1>13, OneSession DEF SessionInv

\* An agent ends, on request or not.
LEMMA AgentGone ==
    ASSUME Inv, NEW s \in Sessions, NEW t \in Targets, agent[s][t] \in {"starting", "up"},
           agent' = SetAt(agent, s, t, "gone"), queue' = SetAt(queue, s, t, <<>>),
           UNCHANGED <<shared, open, allowed, pc, local>>
    PROVE  Inv'
<1>. USE DEF Goto, Set, shared, agents, local
<1>1. Types /\ SessionInv(s)
  BY DEF Inv
<1>2. /\ agent' \in [Sessions -> [Targets -> AgentStates]]
      /\ agent'[s][t] = "gone"
      /\ \A v \in Targets \ {t} : agent'[s][v] = agent[s][v]
      /\ \A u \in Sessions \ {s} : agent'[u] = agent[u]
  <2>1. "gone" \in AgentStates
    BY DEF AgentStates
  <2>. QED BY <1>1, <2>1, AgentSet
<1>3. /\ queue' \in [Sessions -> [Targets -> Seq({"scan", "shutdown"})]]
      /\ queue'[s][t] = <<>>
      /\ \A v \in Targets \ {t} : queue'[s][v] = queue[s][v]
      /\ \A u \in Sessions \ {s} : queue'[u] = queue[u]
  <2>1. <<>> \in Seq({"scan", "shutdown"})
    OBVIOUS
  <2>. QED BY <1>1, <2>1, QueueSet
<1>4. Types'
  BY <1>1, <1>2, <1>3 DEF Types
<1>5. \A u \in Sessions \ {s} : Same(u)
  BY <1>2, <1>3 DEF Same
<1>6. /\ \A v : Ports(s, v)' = Ports(s, v)
      /\ \A v : NextTarget(s, v)' = NextTarget(s, v)
      /\ Reported(s)' = Reported(s) /\ Forwarded(s)' = Forwarded(s)
  BY DEF Ports, Rest, AgentTargets, NextTarget, Reported, Forwarded
<1>7. live[s] \subseteq Targets
  BY <1>1 DEF Types
<1>8. Living(s)'
  BY <1>1, <1>2, <1>7 DEF SessionInv, Living
<1>9. Agents(s)'
  BY <1>1, <1>2, <1>3, <1>6, <1>7 DEF SessionInv, Agents, ToldToEnd, Before
<1>10. Listening(s)'
  <2>1. \A v \in Targets : agent'[s][v] \in {"gone", agent[s][v]}
    BY <1>2
  <2>. QED BY <1>1, <1>6, <2>1 DEF SessionInv, Listening
<1>11. Allowing(s)'
  <2>1. \A v \in Targets : \A i \in DOMAIN queue'[s][v] : queue'[s][v][i] = "scan" => v = 1
    <3>1. DOMAIN queue'[s][t] = {}
      BY <1>3
    <3>. QED BY <1>1, <1>3, <3>1 DEF SessionInv, Allowing
  <2>2. \A v \in Targets : agent'[s][v] # "none" => agent[s][v] # "none"
    BY <1>2
  <2>. QED BY <1>1, <1>6, <2>1, <2>2 DEF SessionInv, Allowing
<1>12. Reporting(s)'
  BY <1>1, <1>2, <1>3, <1>6, <1>7 DEF SessionInv, Reporting
<1>13. Adding(s)'
  BY <1>1, <1>2, <1>3, <1>6, <1>7 DEF SessionInv, Adding
<1>14. Filed(s)'
  BY <1>1, <1>2, <1>3, <1>6, <1>7 DEF SessionInv, Filed
<1>. QED BY <1>1, <1>4, <1>5, <1>8, <1>9, <1>10, <1>11, <1>12, <1>13, <1>14, OneSession DEF SessionInv

LEMMA AgentScansStep ==
    ASSUME Inv, NEW s \in Sessions, NEW t \in Targets, AgentScans(s, t)
    PROVE  Inv'
<1>. USE DEF AgentScans, Goto, Set, shared, agents, local
<1>1. Types /\ SessionInv(s)
  BY DEF Inv
<1>2. /\ Tail(queue[s][t]) \in Seq({"scan", "shutdown"})
      /\ "shutdown" \in Range(queue[s][t]) => "shutdown" \in Range(Tail(queue[s][t]))
      /\ \A i \in DOMAIN Tail(queue[s][t]) :
            i + 1 \in DOMAIN queue[s][t] /\ Tail(queue[s][t])[i] = queue[s][t][i + 1]
      /\ t = 1
  <2>1. queue[s][t] \in Seq({"scan", "shutdown"}) /\ queue[s][t] # <<>> /\ queue[s][t][1] = "scan"
    BY <1>1 DEF Types
  <2>2. 1 \in DOMAIN queue[s][t]
    BY <2>1
  <2>3. t = 1
    BY <1>1, <2>1, <2>2 DEF SessionInv, Allowing
  <2>. QED BY <2>1, <2>3, TailKeeps
<1>3. /\ queue' \in [Sessions -> [Targets -> Seq({"scan", "shutdown"})]]
      /\ queue'[s][t] = Tail(queue[s][t])
      /\ \A v \in Targets \ {t} : queue'[s][v] = queue[s][v]
      /\ \A u \in Sessions \ {s} : queue'[u] = queue[u]
  BY <1>1, <1>2, QueueSet
<1>4. allowed[s][t] \cup Detected \in SUBSET HostPorts /\ Detected \subseteq HostPorts
  BY <1>1 DEF Types, Detected
<1>5. /\ allowed' \in [Sessions -> [Targets -> SUBSET HostPorts]]
      /\ allowed'[s][t] = allowed[s][t] \cup Detected
      /\ \A v \in Targets \ {t} : allowed'[s][v] = allowed[s][v]
      /\ \A u \in Sessions \ {s} : allowed'[u] = allowed[u]
  BY <1>1, <1>4, AllowedSet
<1>6. \A v \in Targets : allowed[s][v] \subseteq allowed'[s][v]
  BY <1>5
<1>7. \/ auto[s] = "asked" /\ auto'[s] = "answered" /\ found'[s] = Detected
      \/ auto[s] # "asked" /\ auto' = auto /\ found' = found
  BY <1>1 DEF Types
<1>8. Types'
  <2>1. found' \in [Sessions -> SUBSET HostPorts] /\ auto' \in
           [Sessions -> {"no", "off", "asleep", "asked", "answered", "bind"}]
    <3>1. CASE auto[s] = "asked"
      <4>1. found' = [found EXCEPT ![s] = Detected] /\ auto' = [auto EXCEPT ![s] = "answered"]
        BY <3>1
      <4>. QED BY <1>1, <1>4, <4>1 DEF Types
    <3>2. CASE auto[s] # "asked"
      BY <1>1, <3>2 DEF Types
    <3>. QED BY <3>1, <3>2
  <2>. QED BY <1>1, <1>3, <1>5, <2>1 DEF Types
<1>9. \A u \in Sessions \ {s} : Same(u)
  BY <1>1, <1>3, <1>5 DEF Types, Same
<1>10. /\ \A v : Ports(s, v)' = Ports(s, v)
      /\ \A v : NextTarget(s, v)' = NextTarget(s, v)
      /\ Reported(s)' = Reported(s) /\ Forwarded(s)' = Forwarded(s)
  BY <1>1, <1>7 DEF Ports, Rest, AgentTargets, NextTarget, Types, Reported, Forwarded
<1>11. Living(s)'
  BY <1>1, <1>7 DEF SessionInv, Living
<1>12. Agents(s)'
  BY <1>1, <1>2, <1>3, <1>10 DEF SessionInv, Agents, ToldToEnd
<1>13. Listening(s)'
  BY <1>1, <1>6, <1>10 DEF SessionInv, Listening
<1>14. Allowing(s)'
  <2>1. \A v \in Targets : \A i \in DOMAIN queue'[s][v] : queue'[s][v][i] = "scan" => v = 1
    BY <1>1, <1>2, <1>3 DEF SessionInv, Allowing
  <2>2. (found[s] \cup DOMAIN adds[s] \subseteq allowed[s][1])'
    BY <1>1, <1>2, <1>5, <1>7 DEF SessionInv, Allowing
  <2>3. \A v \in Targets : pc[s] \in {"wait", "listen"} /\ NextTarget(s, v) =>
           /\ agent[s][v] # "none" => \A i \in Ports(s, v) : plan[s][i].c \in allowed'[s][v]
           /\ pc[s] = "listen" => todo[s] \subseteq Ports(s, v)
    BY <1>1, <1>6 DEF SessionInv, Allowing
  <2>. QED BY <1>1, <1>7, <1>10, <2>1, <2>2, <2>3 DEF SessionInv, Allowing
<1>15. Reporting(s)'
  BY <1>1 DEF SessionInv, Reporting
<1>16. Adding(s)'
  BY <1>1, <1>7, <1>10 DEF SessionInv, Adding
<1>17. Filed(s)'
  BY <1>1 DEF SessionInv, Filed
<1>. QED BY <1>1, <1>8, <1>9, <1>11, <1>12, <1>13, <1>14, <1>15, <1>16, <1>17, OneSession DEF SessionInv

LEMMA AgentScanFailsStep ==
    ASSUME Inv, NEW s \in Sessions, NEW t \in Targets, AgentScanFails(s, t)
    PROVE  Inv'
<1>. USE DEF AgentScanFails, Goto, Set, shared, agents, local
<1>1. Types /\ SessionInv(s)
  BY DEF Inv
<1>2. /\ Tail(queue[s][t]) \in Seq({"scan", "shutdown"})
      /\ "shutdown" \in Range(queue[s][t]) => "shutdown" \in Range(Tail(queue[s][t]))
      /\ \A i \in DOMAIN Tail(queue[s][t]) :
            i + 1 \in DOMAIN queue[s][t] /\ Tail(queue[s][t])[i] = queue[s][t][i + 1]
      /\ t = 1
  <2>1. queue[s][t] \in Seq({"scan", "shutdown"}) /\ queue[s][t] # <<>> /\ queue[s][t][1] = "scan"
    BY <1>1 DEF Types
  <2>2. 1 \in DOMAIN queue[s][t]
    BY <2>1
  <2>3. t = 1
    BY <1>1, <2>1, <2>2 DEF SessionInv, Allowing
  <2>. QED BY <2>1, <2>3, TailKeeps
<1>3. /\ queue' \in [Sessions -> [Targets -> Seq({"scan", "shutdown"})]]
      /\ queue'[s][t] = Tail(queue[s][t])
      /\ \A v \in Targets \ {t} : queue'[s][v] = queue[s][v]
      /\ \A u \in Sessions \ {s} : queue'[u] = queue[u]
  BY <1>1, <1>2, QueueSet
<1>4. \/ auto[s] = "asked" /\ auto'[s] = "asleep"
      \/ auto[s] # "asked" /\ auto' = auto
  BY <1>1 DEF Types
<1>5. Types'
  BY <1>1, <1>3 DEF Types
<1>6. \A u \in Sessions \ {s} : Same(u)
  BY <1>1, <1>3 DEF Types, Same
<1>7. /\ \A v : Ports(s, v)' = Ports(s, v)
      /\ \A v : NextTarget(s, v)' = NextTarget(s, v)
      /\ Reported(s)' = Reported(s) /\ Forwarded(s)' = Forwarded(s)
  BY <1>1, <1>4 DEF Ports, Rest, AgentTargets, NextTarget, Types, Reported, Forwarded
<1>8. Living(s)'
  BY <1>1, <1>4 DEF SessionInv, Living
<1>9. Agents(s)'
  BY <1>1, <1>2, <1>3, <1>7 DEF SessionInv, Agents, ToldToEnd
<1>10. Listening(s)'
  BY <1>1, <1>7 DEF SessionInv, Listening
<1>11. Allowing(s)'
  <2>1. \A v \in Targets : \A i \in DOMAIN queue'[s][v] : queue'[s][v][i] = "scan" => v = 1
    BY <1>1, <1>2, <1>3 DEF SessionInv, Allowing
  <2>. QED BY <1>1, <1>4, <1>7, <2>1 DEF SessionInv, Allowing
<1>12. Reporting(s)'
  BY <1>1 DEF SessionInv, Reporting
<1>13. Adding(s)'
  BY <1>1, <1>4, <1>7 DEF SessionInv, Adding
<1>14. Filed(s)'
  BY <1>1 DEF SessionInv, Filed
<1>. QED BY <1>1, <1>5, <1>6, <1>8, <1>9, <1>10, <1>11, <1>12, <1>13, <1>14, OneSession DEF SessionInv

LEMMA OthersStep ==
    ASSUME Inv, OtherPrograms
    PROVE  Inv'
<1>1. PICK p \in HostPorts : Takes(p) \/ Releases(p)
  BY DEF OtherPrograms
<1>2. /\ host' \in [HostPorts -> Holders]
      /\ \A q \in HostPorts, c \in HostPorts, u \in Sessions, v \in Targets :
            host'[q] = L(u, v, c) <=> host[q] = L(u, v, c)
  <2>1. host \in [HostPorts -> Holders]
    BY DEF Inv, Types
  <2>2. host[p] \in {NoOne, Foreign} /\ host' \in {[host EXCEPT ![p] = Foreign], [host EXCEPT ![p] = NoOne]}
    BY <1>1 DEF Takes, Releases
  <2>3. host'[p] \in {NoOne, Foreign} /\ \A q \in HostPorts \ {p} : host'[q] = host[q]
    BY <2>1, <2>2
  <2>4. host' \in [HostPorts -> Holders]
    BY <2>1, <2>2 DEF Holders
  <2>. QED BY <2>2, <2>3, <2>4, ListenersDiffer
<1>3. \A u \in Sessions : Same(u)
  BY <1>2 DEF OtherPrograms, Same, agents, local
<1>4. Types'
  BY <1>2 DEF Inv, Types, OtherPrograms, agents, local
<1>. QED BY <1>3, <1>4, SameKeeps DEF Inv

LEMMA OutsideStep ==
    ASSUME Inv, Outside
    PROVE  Inv'
<1>1. open' \subseteq HostPorts
  BY ServersAssumption DEF Inv, Types, Outside, Opens, Closes
<1>2. \A u \in Sessions : Same(u)
  BY DEF Outside, Same, shared, agents, local
<1>3. Types'
  BY <1>1 DEF Inv, Types, Outside, shared, agents, local
<1>. QED BY <1>2, <1>3, SameKeeps DEF Inv

LEMMA PlanStep ==
    ASSUME Inv, NEW s \in Sessions, NEW req \in Requests, Plan(s, req)
    PROVE  Inv'
<1>1. Types /\ SessionInv(s)
  BY DEF Inv
<1>2. PICK f : /\ plan' = [plan EXCEPT ![s] = f]
               /\ \A i \in DOMAIN f : f[i].c \in HostPorts
  <2>. DEFINE port == Resolved([i \in DOMAIN req.ports |-> req.ports[i].h], Reserved)
              f == IF req.attached
                   THEN [i \in DOMAIN req.ports |-> [req.ports[i] EXCEPT !.h = port[i]]]
                   ELSE <<>>
  <2>1. plan' = [plan EXCEPT ![s] = f]
    BY DEF Plan, Set
  <2>2. ASSUME NEW i \in DOMAIN f
        PROVE  f[i].c \in HostPorts
    <3>1. req.attached
      BY <2>2
    <3>2. req.ports \in Seq([t : Targets, c : HostPorts, h : HostPorts])
      BY RequestsAssumption
    <3>3. i \in DOMAIN req.ports /\ f[i] = [req.ports[i] EXCEPT !.h = port[i]]
      BY <2>2, <3>1
    <3>4. req.ports[i] \in [t : Targets, c : HostPorts, h : HostPorts]
      <4>. DEFINE Fwd == [t : Targets, c : HostPorts, h : HostPorts]
      <4>1. req.ports \in Seq(Fwd) /\ i \in 1..Len(req.ports)
        BY <3>2, <3>3
      <4>. HIDE DEF Fwd
      <4>2. req.ports[i] \in Fwd
        BY <4>1
      <4>. QED BY <4>2 DEF Fwd
    <3>5. [req.ports[i] EXCEPT !.h = port[i]].c = req.ports[i].c
      BY <3>4
    <3>. QED BY <3>3, <3>4, <3>5
  <2>. HIDE DEF f
  <2>. QED BY <2>1, <2>2
<1>3. /\ pc[s] = "idle"
      /\ pc' = [pc EXCEPT ![s] = IF req.attached THEN "planned" ELSE "detached"]
      /\ auto' = [auto EXCEPT ![s] = IF req.attached /\ req.auto THEN "off" ELSE "no"]
      /\ host' = host /\ status' = status /\ open' = open /\ agent' = agent
      /\ allowed' = allowed /\ queue' = queue /\ todo' = todo /\ adds' = adds /\ live' = live
      /\ registry' = registry /\ found' = found /\ lost' = lost
  BY DEF Plan, Goto, Set, shared, agents
<1>4. /\ pc' \in [Sessions -> Pcs] /\ pc'[s] \in {"planned", "detached"}
      /\ auto' \in [Sessions -> {"no", "off", "asleep", "asked", "answered", "bind"}]
      /\ auto'[s] \in {"no", "off"}
      /\ \A u \in Sessions \ {s} : pc'[u] = pc[u] /\ auto'[u] = auto[u]
  BY <1>1, <1>3 DEF Types, Pcs, Before
<1>5. /\ DOMAIN plan' = Sessions
      /\ \A u \in Sessions : \A i \in DOMAIN plan'[u] : plan'[u][i].c \in HostPorts
      /\ \A u \in Sessions \ {s} : plan'[u] = plan[u]
  BY <1>1, <1>2 DEF Types
<1>6. Types'
  BY <1>1, <1>3, <1>4, <1>5 DEF Types
<1>7. \A u \in Sessions \ {s} : Same(u)
  BY <1>3, <1>4, <1>5 DEF Same
<1>8. status[s] = "none"
  BY <1>1, <1>3 DEF SessionInv, Filed
<1>. QED BY <1>3, <1>4, <1>6, <1>7, <1>8, NotStarted DEF Before, agents

LEMMA StageStep ==
    ASSUME Inv, NEW s \in Sessions, Stage(s)
    PROVE  Inv'
<1>. USE DEF Stage, Goto, Set, shared, agents, local
<1>1. Types /\ SessionInv(s)
  BY DEF Inv
<1>2. pc[s] \in Before /\ auto[s] \in {"no", "off"}
  BY <1>1 DEF Before, Types, SessionInv, Living
<1>3. Types'
  BY <1>1 DEF Types, Pcs, Before, Over
<1>4. \A u \in Sessions \ {s} : Same(u)
  BY <1>1 DEF Types, Same
<1>5. /\ pc'[s] \in Before \cup {"exec", "serve", "exit"} /\ auto'[s] \in {"no", "off"}
      /\ pc'[s] \in {"exit", "metadata"} => status'[s] # "both"
      /\ pc'[s] \in {"idle", "planned", "detached", "start"} => status'[s] = "none"
  BY <1>1, <1>2 DEF Before, Types, SessionInv, Filed
<1>. QED BY <1>2, <1>3, <1>4, <1>5, NotStarted

LEMMA StartStatusServerStep ==
    ASSUME Inv, NEW s \in Sessions, NEW b \in BOOLEAN, StartStatusServer(s, b)
    PROVE  Inv'
<1>. USE DEF StartStatusServer, Goto, Set, shared, agents, local
<1>1. Types /\ SessionInv(s)
  BY DEF Inv
<1>2. pc[s] \in Before /\ auto[s] \in {"no", "off"}
  BY <1>1 DEF Before, Types, SessionInv, Living
<1>3. Types'
  BY <1>1 DEF Types, Pcs, Before, Over
<1>4. \A u \in Sessions \ {s} : Same(u)
  BY <1>1 DEF Types, Same
<1>5. /\ pc'[s] \in Before \cup {"exec", "serve", "exit"} /\ auto'[s] \in {"no", "off"}
      /\ pc'[s] \in {"exit", "metadata"} => status'[s] # "both"
      /\ pc'[s] \in {"idle", "planned", "detached", "start"} => status'[s] = "none"
  BY <1>1, <1>2 DEF Before, Types, SessionInv, Filed
<1>. QED BY <1>2, <1>3, <1>4, <1>5, NotStarted

LEMMA StatusMetadataStep ==
    ASSUME Inv, NEW s \in Sessions, StatusMetadata(s)
    PROVE  Inv'
<1>. USE DEF StatusMetadata, Goto, Set, shared, agents, local
<1>1. Types /\ SessionInv(s)
  BY DEF Inv
<1>2. pc[s] \in Before /\ auto[s] \in {"no", "off"}
  BY <1>1 DEF Before, Types, SessionInv, Living
<1>3. Types'
  BY <1>1 DEF Types, Pcs, Before, Over
<1>4. \A u \in Sessions \ {s} : Same(u)
  BY <1>1 DEF Types, Same
<1>5. /\ pc'[s] \in Before \cup {"exec", "serve", "exit"} /\ auto'[s] \in {"no", "off"}
      /\ pc'[s] \in {"exit", "metadata"} => status'[s] # "both"
      /\ pc'[s] \in {"idle", "planned", "detached", "start"} => status'[s] = "none"
  BY <1>1, <1>2 DEF Before, Types, SessionInv, Filed
<1>. QED BY <1>2, <1>3, <1>4, <1>5, NotStarted

LEMMA StatusMetadataFailsStep ==
    ASSUME Inv, NEW s \in Sessions, StatusMetadataFails(s)
    PROVE  Inv'
<1>. USE DEF StatusMetadataFails, Goto, Set, shared, agents, local
<1>1. Types /\ SessionInv(s)
  BY DEF Inv
<1>2. pc[s] \in Before /\ auto[s] \in {"no", "off"}
  BY <1>1 DEF Before, Types, SessionInv, Living
<1>3. Types'
  BY <1>1 DEF Types, Pcs, Before, Over
<1>4. \A u \in Sessions \ {s} : Same(u)
  BY <1>1 DEF Types, Same
<1>5. /\ pc'[s] \in Before \cup {"exec", "serve", "exit"} /\ auto'[s] \in {"no", "off"}
      /\ pc'[s] \in {"exit", "metadata"} => status'[s] # "both"
      /\ pc'[s] \in {"idle", "planned", "detached", "start"} => status'[s] = "none"
  BY <1>1, <1>2 DEF Before, Types, SessionInv, Filed
<1>. QED BY <1>2, <1>3, <1>4, <1>5, NotStarted

LEMMA StutterStep ==
    ASSUME Inv, UNCHANGED vars
    PROVE  Inv'
<1>1. Types' /\ \A u \in Sessions : Same(u)
  BY DEF Inv, Types, Same, vars, shared, agents, local
<1>. QED BY <1>1, SameKeeps DEF Inv

LEMMA StartupStep ==
    ASSUME Inv, NEW s \in Sessions, Startup(s)
    PROVE  Inv'
<1>1. CASE Stage(s)
  BY <1>1, StageStep
<1>2. CASE \E b \in BOOLEAN : StartStatusServer(s, b)
  BY <1>2, StartStatusServerStep
<1>3. CASE StatusMetadata(s)
  BY <1>3, StatusMetadataStep
<1>4. ASSUME NEW t \in Targets,
             \/ ExecAgent(s, t) \/ ExecAgentFails(s, t)
             \/ AgentAnswers(s, t) \/ AgentTimesOut(s, t)
             \/ Listen(s, t) \/ ListenFails(s, t) \/ TargetServed(s, t)
      PROVE  Inv'
  BY <1>4, ExecAgentStep, ExecAgentFailsStep, AgentAnswersStep, AgentTimesOutStep,
     ListenStep, ListenFailsStep, TargetServedStep
<1>. QED BY <1>1, <1>2, <1>3, <1>4 DEF Startup

LEMMA LoopStep ==
    ASSUME Inv, NEW s \in Sessions, Loop(s)
    PROVE  Inv'
BY ScanStep, ScanFailsStep, AddDetectedStep, ListenAutoStep, ListenAutoFailsStep,
   AutoServedStep DEF Loop

LEMMA StopStep ==
    ASSUME Inv, NEW s \in Sessions, Stop(s)
    PROVE  Inv'
BY StopTargetStep, StopStatusStep, ExitStep DEF Stop

LEMMA AgentStep ==
    ASSUME Inv, NEW s \in Sessions, NEW t \in Targets,
           Serve(s, t) \/ AgentScanFails(s, t) \/ AgentDies(s, t)
    PROVE  Inv'
<1>1. CASE AgentStarts(s, t) \/ AgentScans(s, t)
  BY <1>1, AgentStartsStep, AgentScansStep
<1>2. CASE AgentShutsDown(s, t)
  BY <1>2, AgentGone DEF AgentShutsDown
<1>3. CASE AgentScanFails(s, t)
  BY <1>3, AgentScanFailsStep
<1>4. CASE AgentDies(s, t)
  BY <1>4, AgentGone DEF AgentDies
<1>. QED BY <1>1, <1>2, <1>3, <1>4 DEF Serve

LEMMA NextStep ==
    ASSUME Inv, [Next]_vars
    PROVE  Inv'
<1>1. ASSUME NEW s \in Sessions,
             \/ \E req \in Requests : Plan(s, req)
             \/ Startup(s) \/ StatusMetadataFails(s)
             \/ Loop(s) \/ ShellEnds(s) \/ Stop(s) \/ Crash(s)
      PROVE  Inv'
  BY <1>1, PlanStep, StartupStep, StatusMetadataFailsStep, LoopStep, ShellEndsStep,
     StopStep, CrashStep
<1>2. ASSUME NEW s \in Sessions, NEW t \in Targets,
             Serve(s, t) \/ AgentScanFails(s, t) \/ AgentDies(s, t)
      PROVE  Inv'
  BY <1>2, AgentStep
<1>3. CASE Outside
  BY <1>3, OutsideStep
<1>4. CASE OtherPrograms
  BY <1>4, OthersStep
<1>5. CASE UNCHANGED vars
  BY <1>5, StutterStep
<1>. QED BY <1>1, <1>2, <1>3, <1>4, <1>5 DEF Next

LEMMA InitHolds == Init => Inv
<1>. SUFFICES ASSUME Init
              PROVE  Inv
  OBVIOUS
<1>. USE DEF Init, NoAdds
<1>1. Types
  BY DEF Types, Holders, AgentStates, Pcs, Before
<1>2. ASSUME NEW s \in Sessions
      PROVE  SessionInv(s)
  <2>1. \A p, c \in HostPorts, t \in Targets : host[p] # L(s, t, c)
    BY ListenersDiffer
  <2>2. Living(s) /\ Agents(s) /\ Filed(s)
    BY DEF Living, Agents, Filed
  <2>3. Listening(s) /\ Allowing(s) /\ Reporting(s)
    BY <2>1 DEF Listening, Allowing, Reporting
  <2>4. Adding(s)
    BY DEF Adding, Forwarded
  <2>. QED BY <2>2, <2>3, <2>4 DEF SessionInv
<1>. QED BY <1>1, <1>2 DEF Inv

-----------------------------------------------------------------------------
\* The invariant of the sessions.
THEOREM InvHolds == Spec => []Inv
<1>1. Inv /\ [Next]_vars => Inv'
  BY NextStep
<1>. QED BY <1>1, InitHolds, PTL DEF Spec

\* What a session reports as forwarded is served, until it stops.
THEOREM ReportIsTrue == Spec => []ReportedIsServed
<1>1. Inv => ReportedIsServed
  <2>. SUFFICES ASSUME Inv, NEW s \in Sessions, pc[s] # "stop", NEW r \in registry[s]
                PROVE  /\ host[r.h] = L(s, r.t, r.c)
                       /\ agent[s][r.t] # "gone" =>
                             agent[s][r.t] = "up" /\ r.c \in allowed[s][r.t]
    BY DEF ReportedIsServed
  <2>1. r.t \in Targets /\ r.c \in HostPorts /\ r.h \in HostPorts
    BY DEF Inv, Types, Kinds
  <2>2. host[r.h] = L(s, r.t, r.c)
    BY DEF Inv, SessionInv, Reporting
  <2>. QED BY <2>1, <2>2 DEF Inv, SessionInv, Listening
<1>. QED BY <1>1, InvHolds, PTL

\* The loop forwards a port of the primary container at most once.
THEOREM OncePerPort == Spec => []AutoForwardsOnce
<1>1. Inv => AutoForwardsOnce
  BY DEF Inv, SessionInv, Adding, AutoForwardsOnce
<1>. QED BY <1>1, InvHolds, PTL

\* A session that ended left no listener, no report and no agent that waits.
THEOREM NothingLeft == Spec => []NothingLeftBehind
<1>1. Inv => NothingLeftBehind
  <2>. SUFFICES ASSUME Inv, NEW s \in Sessions, pc[s] = "done"
                PROVE  /\ Listeners(s, Targets) = {} /\ status[s] # "both"
                       /\ \A t \in Targets \ lost[s] :
                            agent[s][t] \in {"starting", "up"} =>
                               "shutdown" \in Range(queue[s][t])
    BY DEF NothingLeftBehind
  <2>1. live[s] = {}
    BY DEF Inv, SessionInv, Living, Over
  <2>2. Listeners(s, Targets) = {}
    BY <2>1 DEF Inv, SessionInv, Listening, Listeners
  <2>3. \A t \in Targets : ToldToEnd(s, t)
    BY <2>1 DEF Inv, SessionInv, Agents
  <2>. QED BY <2>2, <2>3 DEF Inv, SessionInv, Filed, ToldToEnd
<1>. QED BY <1>1, InvHolds, PTL
=============================================================================
