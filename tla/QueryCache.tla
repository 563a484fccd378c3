----------------------------- MODULE QueryCache -----------------------------
(***************************************************************************)
(* How a host daemon answers `decune status` and `decune ports` from inside *)
(* the container (host/query.rs): a bounded number of queries, each of them *)
(* needs the Docker evidence of every kind, and evidence is loaded once for *)
(* all queries that wait for it and cached for a short while.               *)
(*                                                                         *)
(* Time is discrete.  Reading local files and asking Docker may take any    *)
(* time; the other steps take none unless the host lags (MaxLag).           *)
(***************************************************************************)
EXTENDS Integers, FiniteSets

CONSTANTS Queries,       \* the permits for queries, ACTIVE_CONTAINER_CLI_QUERIES
          NumKinds,      \* QueryEvidenceKind: 1 containers, 2 volumes
          LoadPermits,   \* CONCURRENT_DOCKER_EVIDENCE_LOADS
          QueryTimeout, LoadTimeout, SuccessTTL, FailureTTL,
          Channels,      \* watch channels, one for each load; reused when dropped
          NoChannel,
          MaxPanics,     \* bound: load tasks that die without an answer
          MaxLag         \* bound: ticks that pass before a step that is due

ASSUME NoChannelAssumption == NoChannel \notin Channels
ASSUME KindsAssumption == NumKinds \in Nat \ {0}
ASSUME PermitsAssumption ==
    LoadPermits \in Nat /\ NumKinds <= LoadPermits
ASSUME TimesAssumption ==
    /\ QueryTimeout \in Nat /\ LoadTimeout \in Nat /\ SuccessTTL \in Nat /\ FailureTTL \in Nat
    /\ 0 < FailureTTL /\ FailureTTL < SuccessTTL /\ LoadTimeout < QueryTimeout
ASSUME BoundsAssumption == MaxPanics \in Nat /\ MaxLag \in Nat

Kinds == 1 .. NumKinds

VARIABLES
    entry,   \* QueryEvidenceCacheInner.entries
    load,    \* the load task behind each channel, and what the channel holds
    query,   \* the queries that hold a permit
    wait,    \* what each query has of each kind of evidence
    panics, lag

vars == <<entry, load, query, wait, panics, lag>>

\* A load task: it waits for a permit, asks Docker, has stored its result in
\* the cache, and has sent it to its channel; or it is dead.
NoLoad == [pc |-> "none", kind |-> 1, age |-> 0]
Load == [pc : {"none", "queued", "running", "stored", "sent", "dead"},
         kind : Kinds, age : 0 .. LoadTimeout]

NoEntry == [state |-> "none", channel |-> NoChannel, ok |-> FALSE, age |-> 0]
Entry == [state : {"none", "loading", "ready"}, channel : Channels \cup {NoChannel},
          ok : BOOLEAN, age : 0 .. SuccessTTL]

NoQuery == [pc |-> "idle", age |-> 0, slow |-> FALSE]
Query == [pc : {"idle", "read", "get"}, age : 0 .. QueryTimeout, slow : BOOLEAN]

\* A query asks, waits on a channel, and has evidence or an error.
Ask == [state |-> "ask", channel |-> NoChannel]
Got == [Ask EXCEPT !.state = "got"]
Wait == [state : {"ask", "wait", "got"}, channel : Channels \cup {NoChannel}]

Active(l) == load[l].pc \in {"queued", "running"}
\* Mutated form: the permit is kept until the result is sent.
RunningUntilSent == {l \in Channels : load[l].pc \in {"running", "stored"}}
Running == {l \in Channels : load[l].pc = "running"}

\* A channel that neither the cache nor a query nor a task refers to is gone.
Dropped(ld, en, wt, l) ==
    /\ ld[l].pc \notin {"queued", "running", "stored"}
    /\ \A k \in Kinds : ~(en[k].state = "loading" /\ en[k].channel = l)
    /\ \A q \in Queries, k \in Kinds : ~(wt[q][k].state = "wait" /\ wt[q][k].channel = l)
Tidy(ld, en, wt) == [l \in Channels |-> IF Dropped(ld, en, wt, l) THEN NoLoad ELSE ld[l]]

TTL(e) == IF e.ok THEN SuccessTTL ELSE FailureTTL
\* cache_entry_is_fresh
Fresh(e) == e.state = "ready" /\ e.age < TTL(e)

\* Mutated form: a load may take as long as a query.
LoadDeadlineOfQuery == QueryTimeout
LoadDeadline == LoadTimeout

Older(n, ttl) == IF n < ttl THEN n + 1 ELSE n

\* Mutated forms: any waiter on a closed channel replaces the entry; none does.
ClosedReplacesAny(k, l) == TRUE
ClosedReplacesNone(k, l) == FALSE
\* load_is_current: the entry still waits for the channel that was closed.
ClosedReplaces(k, l) == entry[k].state = "loading" /\ entry[k].channel = l

-----------------------------------------------------------------------------
Init ==
    /\ entry = [k \in Kinds |-> NoEntry]
    /\ load = [l \in Channels |-> NoLoad]
    /\ query = [q \in Queries |-> NoQuery]
    /\ wait = [q \in Queries |-> [k \in Kinds |-> Ask]]
    /\ panics = 0 /\ lag = 0

\* try_acquire; a query that finds no permit is answered "busy" at once.
Admit(q) ==
    /\ query[q].pc = "idle"
    /\ query' = [query EXCEPT ![q].pc = "read"]
    /\ UNCHANGED <<entry, load, wait, panics, lag>>

\* load_state and load_forwarding have come back.
ReadLocal(q) ==
    /\ query[q].pc = "read"
    /\ query' = [query EXCEPT ![q].pc = "get",
                            ![q].slow = query[q].age >= QueryTimeout - LoadTimeout]
    /\ UNCHANGED <<entry, load, wait, panics, lag>>

Unused == {l \in Channels : load[l].pc = "none"}
\* join! polls the kinds in order.
Asks(q, k) ==
    /\ query[q].pc = "get" /\ wait[q][k].state = "ask"
    /\ \A j \in Kinds : j < k => wait[q][j].state # "ask"

\* QueryEvidenceCache::get under the lock: join a load, hit, or start a load.
GetLoading(q, k) ==
    /\ Asks(q, k) /\ entry[k].state = "loading"
    /\ wait' = [wait EXCEPT ![q][k].state = "wait", ![q][k].channel = entry[k].channel]
    /\ UNCHANGED <<entry, load, query, panics, lag>>

GetHit(q, k) ==
    /\ Asks(q, k) /\ Fresh(entry[k])
    /\ wait' = [wait EXCEPT ![q][k] = Got]
    /\ UNCHANGED <<entry, load, query, panics, lag>>

GetMiss(q, k) ==
    /\ Asks(q, k) /\ entry[k].state # "loading" /\ ~Fresh(entry[k])
    /\ Unused # {}
    /\ LET l == CHOOSE c \in Unused : TRUE IN
         /\ entry' = [entry EXCEPT ![k] = [NoEntry EXCEPT !.state = "loading", !.channel = l]]
         /\ load' = [load EXCEPT ![l].pc = "queued", ![l].kind = k]
         /\ wait' = [wait EXCEPT ![q][k].state = "wait", ![q][k].channel = l]
    /\ UNCHANGED <<query, panics, lag>>

\* load_query_evidence: the permit is waited for within the load's timeout.
AcquirePermit(l) ==
    /\ load[l].pc = "queued" /\ Cardinality(Running) < LoadPermits
    /\ load' = [load EXCEPT ![l].pc = "running"]
    /\ UNCHANGED <<entry, query, wait, panics, lag>>

\* The task stores its result; only then does it send it.
Store(l, ok) ==
    /\ entry' = [entry EXCEPT ![load[l].kind] =
                   [NoEntry EXCEPT !.state = "ready", !.ok = ok]]
    /\ load' = [load EXCEPT ![l] = [NoLoad EXCEPT !.pc = "stored"]]
    /\ UNCHANGED <<query, wait, panics, lag>>

Finish(l, ok) == load[l].pc = "running" /\ Store(l, ok)

LoadTimesOut(l) == Active(l) /\ load[l].age = LoadDeadline /\ Store(l, FALSE)

Send(l) ==
    /\ load[l].pc = "stored"
    /\ load' = Tidy([load EXCEPT ![l].pc = "sent"], entry, wait)
    /\ UNCHANGED <<entry, query, wait, panics, lag>>

\* The task ends without sending: its channel is closed.
Panic(l) ==
    /\ Active(l) /\ panics < MaxPanics
    /\ panics' = panics + 1
    /\ load' = [load EXCEPT ![l] = [NoLoad EXCEPT !.pc = "dead"]]
    /\ UNCHANGED <<entry, query, wait, lag>>

Waits(q, k, l) == wait[q][k].state = "wait" /\ wait[q][k].channel = l

\* wait_for_load
Notice(q, k) ==
    /\ \E l \in Channels :
         /\ Waits(q, k, l) /\ load[l].pc = "sent"
         /\ wait' = [wait EXCEPT ![q][k] = Got]
    /\ load' = Tidy(load, entry, wait')
    /\ UNCHANGED <<entry, query, panics, lag>>

\* cache_closed_load_failure
NoticeClosed(q, k) ==
    /\ \E l \in Channels :
         /\ Waits(q, k, l) /\ load[l].pc = "dead"
         /\ entry' = IF ClosedReplaces(k, l)
                       THEN [entry EXCEPT ![k] = [NoEntry EXCEPT !.state = "ready"]]
                       ELSE entry
    /\ wait' = [wait EXCEPT ![q][k] = Got]
    /\ load' = Tidy(load, entry', wait')
    /\ UNCHANGED <<query, panics, lag>>

\* The query ends: answered, or cut off.  The loads it started go on.
EndQuery(q) ==
    /\ query' = [query EXCEPT ![q] = NoQuery]
    /\ wait' = [wait EXCEPT ![q] = [k \in Kinds |-> Ask]]
    /\ load' = Tidy(load, entry, wait')
    /\ UNCHANGED <<entry, panics, lag>>

Answer(q) ==
    /\ query[q].pc = "get" /\ \A k \in Kinds : wait[q][k].state = "got"
    /\ EndQuery(q)

QueryTimesOut(q) ==
    /\ query[q].pc # "idle" /\ query[q].age = QueryTimeout
    /\ EndQuery(q)

\* A step that takes no time is due.
Due ==
    \/ \E q \in Queries : query[q].pc = "get" /\ \A k \in Kinds : wait[q][k].state = "got"
    \/ \E q \in Queries, k \in Kinds :
         Asks(q, k) \/ \E l \in Channels : Waits(q, k, l) /\ load[l].pc \in {"sent", "dead"}
    \/ \E l \in Channels : load[l].pc = "stored"
    \/ Cardinality(Running) < LoadPermits /\ \E l \in Channels : load[l].pc = "queued"

\* Timers fire when they are due; the rest may lag.
Tick ==
    /\ \A l \in Channels : Active(l) => load[l].age < LoadDeadline
    /\ \A q \in Queries : query[q].pc # "idle" => query[q].age < QueryTimeout
    /\ IF Due THEN lag < MaxLag /\ lag' = lag + 1 ELSE lag' = lag
    /\ load' = [l \in Channels |->
         IF Active(l) THEN [load[l] EXCEPT !.age = @ + 1] ELSE load[l]]
    /\ entry' = [k \in Kinds |->
         IF entry[k].state # "ready" THEN entry[k]
         ELSE [entry[k] EXCEPT !.age = Older(@, TTL(entry[k]))]]
    /\ query' = [q \in Queries |->
         IF query[q].pc = "idle" THEN query[q] ELSE [query[q] EXCEPT !.age = @ + 1]]
    /\ UNCHANGED <<wait, panics>>

Serve(q) ==
    \/ \E k \in Kinds : GetLoading(q, k) \/ GetHit(q, k) \/ GetMiss(q, k)
                        \/ Notice(q, k) \/ NoticeClosed(q, k)
    \/ Answer(q) \/ QueryTimesOut(q)

Task(l) ==
    \/ AcquirePermit(l) \/ LoadTimesOut(l) \/ Send(l)
    \/ \E ok \in BOOLEAN : Finish(l, ok)

Next ==
    \/ \E q \in Queries : Admit(q) \/ ReadLocal(q) \/ Serve(q)
    \/ \E l \in Channels : Task(l) \/ Panic(l)
    \/ Tick

Spec == Init /\ [][Next]_vars

-----------------------------------------------------------------------------
\* Every variable has the type its declaration in the code gives it.
TypeOK ==
    /\ entry \in [Kinds -> Entry] /\ load \in [Channels -> Load]
    /\ query \in [Queries -> Query] /\ wait \in [Queries -> [Kinds -> Wait]]
    /\ panics \in 0 .. MaxPanics /\ lag \in 0 .. MaxLag

\* However queries, failures, timeouts and dead tasks overlap, Docker is asked
\* for each kind of evidence by at most one load at a time.
SingleFlight ==
    \A l, m \in Channels : (Active(l) /\ Active(m) /\ load[l].kind = load[m].kind) => l = m

\* A load never waits for a permit: the permits that bound the Docker calls
\* suffice for every kind, so the wait takes nothing off a load's timeout.
LoadsNeverQueue ==
    \A l \in Channels : load[l].pc = "queued" => Cardinality(Running) < LoadPermits

\* The query timeout cuts off slow local reads, never the wait for Docker: that
\* has its own timeout, after which the query is answered with a warning.
TimeoutOnlyForSlowReads ==
    [][\A q \in Queries :
         (lag = 0 /\ QueryTimesOut(q) /\ query[q].pc = "get" /\ ~Answer(q))
             => query[q].slow]_vars

\* A dead load fails the queries that joined it and no later one: the first of
\* them that notices takes it out of the cache, so that the next query loads again.
DeadLoadForgotten ==
    [][\A q \in Queries, k \in Kinds, l \in Channels :
         (Waits(q, k, l) /\ load[l].pc = "dead" /\ wait'[q][k] = Got)
             => ~(entry'[k].state = "loading" /\ entry'[k].channel = l)]_vars
=============================================================================
