-------------------------- MODULE QueryCacheProofs --------------------------
(***************************************************************************)
(* For any number of queries, kinds of evidence, channels, times and        *)
(* panics: Docker is asked once for each kind at a time, a load never       *)
(* waits for a permit, a dead load is forgotten, and only a query that read *)
(* the local files too slowly is cut off before it has its evidence.        *)
(***************************************************************************)
EXTENDS QueryCache, Functions, FiniteSetTheorems, WellFoundedInduction, TLAPS

\* What the argument needs of the types.
CacheType == entry \in [Kinds -> Entry] /\ load \in [Channels -> Load]

\* The strengthening of SingleFlight: the cache waits for every active load.
Owned == \A l \in Channels : Active(l) =>
    entry[load[l].kind].state = "loading" /\ entry[load[l].kind].channel = l

Inv == CacheType /\ Owned

\* Dropping channels keeps the loads and forgets only what is not active.
LEMMA TidyType ==
  ASSUME NEW ld \in [Channels -> Load], NEW en, NEW wt
  PROVE  /\ Tidy(ld, en, wt) \in [Channels -> Load]
         /\ \A l \in Channels : Tidy(ld, en, wt)[l].pc \in {"queued", "running"} =>
                                    Tidy(ld, en, wt)[l] = ld[l]
<1>1. NoLoad \in Load /\ NoLoad.pc = "none"
  BY KindsAssumption, TimesAssumption DEF NoLoad, Load, Kinds
<1> QED
  BY <1>1 DEF Tidy

\* The entries that a step may store.
LEMMA EntryType ==
  /\ NoEntry \in Entry
  /\ \A ok \in BOOLEAN : [NoEntry EXCEPT !.state = "ready", !.ok = ok] \in Entry
  /\ [NoEntry EXCEPT !.state = "ready"] \in Entry
  /\ \A l \in Channels : /\ [NoEntry EXCEPT !.state = "loading", !.channel = l] \in Entry
                         /\ [NoEntry EXCEPT !.state = "loading", !.channel = l].state = "loading"
                         /\ [NoEntry EXCEPT !.state = "loading", !.channel = l].channel = l
<1>1. 0 \in 0 .. SuccessTTL
  BY TimesAssumption
<1>2. NoEntry \in Entry
  <2>1. FALSE \in BOOLEAN
    OBVIOUS
  <2> QED
    BY <1>1, <2>1, Zenon DEF NoEntry, Entry
<1>3. ASSUME NEW ok \in BOOLEAN PROVE [NoEntry EXCEPT !.state = "ready", !.ok = ok] \in Entry
  BY <1>2 DEF Entry
<1>4. [NoEntry EXCEPT !.state = "ready"] \in Entry
  BY <1>2 DEF Entry
<1>5. ASSUME NEW l \in Channels
      PROVE  /\ [NoEntry EXCEPT !.state = "loading", !.channel = l] \in Entry
             /\ [NoEntry EXCEPT !.state = "loading", !.channel = l].state = "loading"
             /\ [NoEntry EXCEPT !.state = "loading", !.channel = l].channel = l
  BY <1>2 DEF Entry
<1> QED
  BY <1>2, <1>3, <1>4, <1>5

LEMMA InitInv == Init => Inv
<1>1. NoLoad \in Load
  BY KindsAssumption, TimesAssumption DEF NoLoad, Load, Kinds
<1>2. Init => CacheType
  BY <1>1, EntryType DEF Init, CacheType
<1>3. Init => \A l \in Channels : load[l].pc = "none"
  BY DEF Init, NoLoad
<1> QED
  BY <1>2, <1>3 DEF Inv, Owned, Active

\* A load that another step leaves alone stays owned.
LEMMA TidyOwned ==
  ASSUME Inv, NEW wt, load' = Tidy(load, entry', wt), CacheType',
         \A k \in Kinds : entry'[k] = entry[k] \/ \E l \in Channels :
             load[l].pc = "dead" /\ entry[k].channel = l /\ entry[k].state = "loading"
  PROVE  Inv'
<1>1. SUFFICES ASSUME NEW l \in Channels, Active(l)'
               PROVE  (entry[load[l].kind].state = "loading" /\ entry[load[l].kind].channel = l)'
  BY DEF Inv, Owned
<1>2. load'[l] = load[l] /\ Active(l)
  BY <1>1, TidyType DEF Inv, CacheType, Active
<1>3. load[l].kind \in Kinds
  BY DEF Inv, CacheType, Load
<1> QED
  BY <1>2, <1>3 DEF Inv, Owned, Active

LEMMA GetMissInv == ASSUME Inv, NEW q \in Queries, NEW k \in Kinds, GetMiss(q, k) PROVE Inv'
<1> DEFINE l == CHOOSE c \in Unused : TRUE
           e == [NoEntry EXCEPT !.state = "loading", !.channel = l]
<1>1. l \in Channels /\ load[l].pc = "none" /\ entry[k].state # "loading"
  BY DEF GetMiss, Unused
<1>2. entry' = [entry EXCEPT ![k] = e] /\ load' = [load EXCEPT ![l].pc = "queued", ![l].kind = k]
  BY DEF GetMiss
<1>3. e \in Entry /\ e.state = "loading" /\ e.channel = l
  BY <1>1, EntryType
<1> HIDE DEF l, e
<1>4. CacheType'
  <2>1. entry \in [Kinds -> Entry] /\ load \in [Channels -> Load]
    BY DEF Inv, CacheType
  <2>2. entry' \in [Kinds -> Entry]
    BY <1>2, <1>3, <2>1
  <2>3. [load[l] EXCEPT !.pc = "queued", !.kind = k] \in Load
    BY <1>1, <2>1 DEF Load
  <2>4. load' = [load EXCEPT ![l] = [load[l] EXCEPT !.pc = "queued", !.kind = k]]
    BY <1>1, <1>2, <2>1 DEF Load
  <2>5. load' \in [Channels -> Load]
    BY <2>1, <2>3, <2>4
  <2> QED
    BY <2>2, <2>5 DEF CacheType
<1>5. load'[l].kind = k /\ \A m \in Channels : m # l => load'[m] = load[m]
  BY <1>1, <1>2 DEF Inv, CacheType, Load
<1>6. ASSUME NEW m \in Channels, Active(m)'
      PROVE  (entry[load[m].kind].state = "loading" /\ entry[load[m].kind].channel = m)'
  <2>1. CASE m = l
    BY <1>2, <1>3, <1>5, <2>1 DEF Inv, CacheType
  <2>2. CASE m # l
    <3>1. Active(m) /\ load'[m].kind = load[m].kind /\ load[m].kind \in Kinds
      BY <1>5, <1>6, <2>2 DEF Active, Inv, CacheType, Load
    <3>2. load[m].kind # k
      BY <1>1, <3>1 DEF Inv, Owned
    <3> QED
      BY <1>2, <3>1, <3>2 DEF Inv, Owned, CacheType
  <2> QED
    BY <2>1, <2>2
<1> QED
  BY <1>4, <1>6 DEF Inv, Owned

LEMMA StoreInv ==
  ASSUME Inv, NEW l \in Channels, NEW ok \in BOOLEAN, Active(l), Store(l, ok)
  PROVE  Inv'
<1> DEFINE e == [NoEntry EXCEPT !.state = "ready", !.ok = ok]
           d == [NoLoad EXCEPT !.pc = "stored"]
<1>1. e \in Entry /\ d \in Load /\ d.pc = "stored" /\ load[l].kind \in Kinds
  <2>1. e \in Entry
    BY EntryType
  <2>2. d \in Load /\ d.pc = "stored"
    BY KindsAssumption, TimesAssumption DEF NoLoad, Load, Kinds
  <2>3. load[l].kind \in Kinds
    BY DEF Load, Inv, CacheType
  <2> QED
    BY <2>1, <2>2, <2>3
<1>2. entry' = [entry EXCEPT ![load[l].kind] = e] /\ load' = [load EXCEPT ![l] = d]
  BY DEF Store
<1> HIDE DEF e, d
<1>3. CacheType'
  BY <1>1, <1>2 DEF Inv, CacheType
<1>4. ASSUME NEW m \in Channels, Active(m)'
      PROVE  (entry[load[m].kind].state = "loading" /\ entry[load[m].kind].channel = m)'
  <2>1. m # l /\ load'[m] = load[m] /\ Active(m)
    BY <1>1, <1>2, <1>4 DEF Active, Inv, CacheType
  <2>2. load[m].kind # load[l].kind
    BY <2>1 DEF Inv, Owned
  <2> QED
    BY <1>1, <1>2, <2>1, <2>2 DEF Inv, Owned, CacheType
<1> QED
  BY <1>3, <1>4 DEF Inv, Owned

LEMMA TickInv == ASSUME Inv, Tick PROVE Inv'
<1>1. load' \in [Channels -> Load]
  BY TimesAssumption DEF Tick, Inv, CacheType, Load, Active, LoadDeadline
<1>2. \A k \in Kinds : Older(entry[k].age, TTL(entry[k])) \in 0 .. SuccessTTL
  BY TimesAssumption DEF Inv, CacheType, Entry, Older, TTL
<1>3. entry' \in [Kinds -> Entry]
  BY <1>2 DEF Tick, Inv, CacheType, Entry
<1>4. \A l \in Channels : load'[l].pc = load[l].pc /\ load'[l].kind = load[l].kind
  BY DEF Tick, Inv, CacheType, Load
<1>5. \A k \in Kinds : entry[k].state = "loading" => entry'[k] = entry[k]
  BY DEF Tick
<1>6. \A l \in Channels : load[l].kind \in Kinds
  BY DEF Inv, CacheType, Load
<1> QED
  BY <1>1, <1>3, <1>4, <1>5, <1>6 DEF Inv, CacheType, Owned, Active

LEMMA NextInv == Inv /\ [Next]_vars => Inv'
<1> SUFFICES ASSUME Inv, [Next]_vars PROVE Inv'
  OBVIOUS
<1>1. CASE UNCHANGED <<entry, load>>
  BY <1>1 DEF Inv, CacheType, Owned, Active
<1>2. ASSUME NEW q \in Queries, NEW k \in Kinds, GetMiss(q, k) PROVE Inv'
  BY <1>2, GetMissInv
<1>3. ASSUME NEW q \in Queries, NEW k \in Kinds, Notice(q, k) PROVE Inv'
  BY <1>3, TidyOwned, TidyType DEF Notice, Inv, CacheType
<1>4. ASSUME NEW q \in Queries, NEW k \in Kinds, NoticeClosed(q, k) PROVE Inv'
  <2>1. entry' \in [Kinds -> Entry]
    BY <1>4, EntryType DEF NoticeClosed, Inv, CacheType
  <2>2. \A j \in Kinds : entry'[j] = entry[j] \/ \E l \in Channels :
             load[l].pc = "dead" /\ entry[j].channel = l /\ entry[j].state = "loading"
    BY <1>4 DEF NoticeClosed, ClosedReplaces, Inv, CacheType
  <2> QED
    BY <1>4, <2>1, <2>2, TidyOwned, TidyType DEF NoticeClosed, Inv, CacheType
<1>5. ASSUME NEW q \in Queries, EndQuery(q) PROVE Inv'
  BY <1>5, TidyOwned, TidyType DEF EndQuery, Inv, CacheType
<1>6. ASSUME NEW l \in Channels, AcquirePermit(l) PROVE Inv'
  BY <1>6 DEF AcquirePermit, Inv, CacheType, Owned, Active, Load
<1>7. ASSUME NEW l \in Channels, NEW ok \in BOOLEAN, Finish(l, ok) \/ LoadTimesOut(l) PROVE Inv'
  BY <1>7, StoreInv DEF Finish, LoadTimesOut, Active
<1>8. ASSUME NEW l \in Channels, Send(l) PROVE Inv'
  <2> DEFINE ld == [load EXCEPT ![l].pc = "sent"]
  <2>1. ld \in [Channels -> Load] /\ load' = Tidy(ld, entry, wait) /\ UNCHANGED entry
    BY <1>8 DEF Send, Inv, CacheType, Load
  <2>2. \A m \in Channels : ld[m].pc \in {"queued", "running"} => ld[m] = load[m]
    BY DEF Inv, CacheType, Load
  <2> HIDE DEF ld
  <2>3. \A m \in Channels : load'[m].pc \in {"queued", "running"} => load'[m] = load[m]
    BY <2>1, <2>2, TidyType
  <2> QED
    BY <2>1, <2>3, TidyType DEF Inv, CacheType, Owned, Active
<1>9. ASSUME NEW l \in Channels, Panic(l) PROVE Inv'
  <2> DEFINE d == [NoLoad EXCEPT !.pc = "dead"]
  <2>1. d \in Load /\ d.pc = "dead"
    BY KindsAssumption, TimesAssumption DEF NoLoad, Load, Kinds
  <2>2. load' = [load EXCEPT ![l] = d] /\ UNCHANGED entry
    BY <1>9 DEF Panic
  <2> HIDE DEF d
  <2> QED
    BY <2>1, <2>2 DEF Inv, CacheType, Owned, Active
<1>10. CASE Next
  BY <1>1, <1>2, <1>3, <1>4, <1>5, <1>6, <1>7, <1>8, <1>9, <1>10, TickInv
  DEF Next, Serve, Task, Admit, ReadLocal, GetLoading, GetHit, Answer, QueryTimesOut
<1> QED
  BY <1>1, <1>10 DEF vars

LEMMA InvInvariant == Spec => []Inv
BY InitInv, NextInv, PTL DEF Spec

LEMMA InvSingleFlight == Inv => SingleFlight
BY DEF Inv, Owned, SingleFlight

\* Docker is asked for each kind of evidence by at most one load at a time.
THEOREM OneLoadPerKind == Spec => []SingleFlight
BY InvInvariant, InvSingleFlight, PTL

\* A load finds a permit at once: the active loads have different kinds.
THEOREM PermitsSuffice == Spec => []LoadsNeverQueue
<1>1. Inv => LoadsNeverQueue
  <2> SUFFICES ASSUME Inv, NEW l \in Channels, load[l].pc = "queued"
               PROVE  Cardinality(Running) < LoadPermits
    BY DEF LoadsNeverQueue
  <2> DEFINE S == Running \cup {l}
             f == [m \in S |-> load[m].kind]
  <2>1. S \subseteq Channels /\ \A m \in S : Active(m) /\ load[m].kind \in Kinds
    BY DEF Running, Active, Inv, CacheType, Load
  <2>2. f \in Injection(S, Kinds)
    BY <2>1, InvSingleFlight DEF SingleFlight, Injection, IsInjective
  <2>3. IsFiniteSet(Kinds) /\ Cardinality(Kinds) = NumKinds
    BY FS_Interval, KindsAssumption DEF Kinds
  <2>4. IsFiniteSet(S) /\ Cardinality(S) <= NumKinds
    BY <2>2, <2>3, FS_Injection
  <2>5. IsFiniteSet(Running) /\ l \notin Running
    BY <2>4, FS_Subset DEF Running
  <2>6. Cardinality(S) = Cardinality(Running) + 1 /\ Cardinality(Running) \in Nat
    BY <2>5, FS_AddElement, FS_CardinalityType
  <2> QED
    BY <2>4, <2>6, KindsAssumption, PermitsAssumption
<1> QED
  BY <1>1, InvInvariant, PTL

-----------------------------------------------------------------------------
(* The types of the queries.                                                 *)

LEMMA InitTypeOK == Init => TypeOK
<1> SUFFICES ASSUME Init PROVE TypeOK
  OBVIOUS
<1>1. NoQuery \in Query /\ Ask \in Wait
  BY TimesAssumption DEF NoQuery, Query, Ask, Wait
<1>2. 0 \in 0 .. MaxPanics /\ 0 \in 0 .. MaxLag
  BY BoundsAssumption
<1> QED
  BY <1>1, <1>2, InitInv DEF Init, TypeOK, Inv, CacheType

\* Ending a query keeps the types.
LEMMA EndQueryType == ASSUME TypeOK, NEW q \in Queries, EndQuery(q)
                      PROVE  query' \in [Queries -> Query] /\ wait' \in [Queries -> [Kinds -> Wait]]
<1>1. NoQuery \in Query /\ Ask \in Wait
  BY TimesAssumption DEF NoQuery, Query, Ask, Wait
<1> QED
  BY <1>1 DEF TypeOK, EndQuery

LEMMA JoinedType ==
  ASSUME NEW w \in Wait, NEW c \in Channels \cup {NoChannel}
  PROVE  /\ [w EXCEPT !.state = "wait", !.channel = c] \in Wait
         /\ [w EXCEPT !.state = "wait", !.channel = c].state = "wait"
         /\ [w EXCEPT !.state = "wait", !.channel = c].channel = c
BY DEF Wait

\* So do the steps of the evidence that a query waits for.
LEMMA WaitType ==
  ASSUME TypeOK, NEW q \in Queries, NEW k \in Kinds,
         GetLoading(q, k) \/ GetHit(q, k) \/ GetMiss(q, k) \/ Notice(q, k) \/ NoticeClosed(q, k)
  PROVE  wait' \in [Queries -> [Kinds -> Wait]] /\ UNCHANGED <<query, panics, lag>>
<1> DEFINE Joins(c) == wait' = [wait EXCEPT ![q] = [wait[q] EXCEPT ![k] =
                                  [wait[q][k] EXCEPT !.state = "wait", !.channel = c]]]
<1>1. Got \in Wait
  BY DEF Got, Ask, Wait
<1>2. ASSUME NEW c \in Channels \cup {NoChannel}, Joins(c)
      PROVE  wait' \in [Queries -> [Kinds -> Wait]]
  <2>1. [wait[q][k] EXCEPT !.state = "wait", !.channel = c] \in Wait
    <3>1. wait[q][k] \in Wait
      BY DEF TypeOK
    <3> QED
      BY <3>1, JoinedType
  <2> QED
    BY <1>2, <2>1 DEF TypeOK
<1>3. ASSUME GetLoading(q, k) PROVE Joins(entry[k].channel) /\ entry[k].channel \in Channels \cup {NoChannel}
  BY <1>3 DEF GetLoading, TypeOK, Entry, Wait
<1>4. ASSUME GetMiss(q, k) PROVE \E c \in Channels : Joins(c)
  BY <1>4 DEF GetMiss, Unused, TypeOK, Wait
<1>5. ASSUME GetHit(q, k) \/ Notice(q, k) \/ NoticeClosed(q, k)
      PROVE  wait' \in [Queries -> [Kinds -> Wait]]
  BY <1>1, <1>5 DEF GetHit, Notice, NoticeClosed, TypeOK
<1>6. UNCHANGED <<query, panics, lag>>
  BY DEF GetLoading, GetHit, GetMiss, Notice, NoticeClosed
<1> HIDE DEF Joins
<1> QED
  BY <1>2, <1>3, <1>4, <1>5, <1>6

LEMMA NextTypeOK == Inv /\ TypeOK /\ [Next]_vars => TypeOK'
<1> SUFFICES ASSUME Inv, TypeOK, [Next]_vars PROVE TypeOK'
  OBVIOUS
<1>1. CacheType'
  BY NextInv DEF Inv
<1>2. SUFFICES /\ query' \in [Queries -> Query] /\ wait' \in [Queries -> [Kinds -> Wait]]
               /\ panics' \in 0 .. MaxPanics /\ lag' \in 0 .. MaxLag
  BY <1>1 DEF CacheType, TypeOK
<1>3. CASE UNCHANGED <<query, wait, panics, lag>>
  BY <1>3 DEF TypeOK
<1>4. ASSUME NEW q \in Queries, Admit(q) \/ ReadLocal(q)
      PROVE  query' \in [Queries -> Query] /\ UNCHANGED <<wait, panics, lag>>
  BY <1>4 DEF Admit, ReadLocal, TypeOK, Query
<1>5. ASSUME NEW l \in Channels, Panic(l)
      PROVE  panics' \in 0 .. MaxPanics /\ UNCHANGED <<query, wait, lag>>
  BY <1>5, BoundsAssumption DEF Panic, TypeOK
<1>6. CASE Tick
  <2>1. query' \in [Queries -> Query]
    BY <1>6, TimesAssumption DEF Tick, TypeOK, Query
  <2>2. lag' \in 0 .. MaxLag
    BY <1>6, BoundsAssumption DEF Tick, TypeOK
  <2> QED
    BY <1>6, <2>1, <2>2 DEF Tick, TypeOK
<1>7. ASSUME NEW q \in Queries, EndQuery(q)
      PROVE  /\ query' \in [Queries -> Query] /\ wait' \in [Queries -> [Kinds -> Wait]]
             /\ UNCHANGED <<panics, lag>>
  BY <1>7, EndQueryType DEF EndQuery
<1>8. CASE Next
  BY <1>3, <1>4, <1>5, <1>6, <1>7, <1>8, WaitType
  DEF Next, Serve, Task, Answer, QueryTimesOut, Finish, LoadTimesOut, Store, AcquirePermit, Send, TypeOK
<1> QED
  BY <1>3, <1>8 DEF vars

-----------------------------------------------------------------------------
(* A dead load.                                                              *)

\* Only cache_closed_load_failure ends a wait for a dead load, and it looks at
\* the cache entry again.
THEOREM DeadLoadIsForgotten == Spec => DeadLoadForgotten
<1>1. ASSUME TypeOK, [Next]_vars, NEW q \in Queries, NEW k \in Kinds, NEW l \in Channels,
             Waits(q, k, l), load[l].pc = "dead", wait'[q][k] = Got
      PROVE  ~(entry'[k].state = "loading" /\ entry'[k].channel = l)
  <2>1. Got.state = "got" /\ Ask.state = "ask" /\ wait[q][k].state = "wait"
    BY <1>1 DEF Got, Ask, Waits
  <2>2. CASE NoticeClosed(q, k)
    <3>1. entry' = IF ClosedReplaces(k, l) THEN [entry EXCEPT ![k] = [NoEntry EXCEPT !.state = "ready"]]
                   ELSE entry
      BY <1>1, <2>2 DEF NoticeClosed, Waits
    <3>2. [NoEntry EXCEPT !.state = "ready"].state = "ready"
      BY DEF NoEntry
    <3> QED
      BY <1>1, <3>1, <3>2 DEF ClosedReplaces, TypeOK
  <2>3. ASSUME NEW r \in Queries, NEW j \in Kinds, r # q \/ j # k,
               GetLoading(r, j) \/ GetHit(r, j) \/ GetMiss(r, j) \/ Notice(r, j) \/ NoticeClosed(r, j)
        PROVE  wait'[q][k] = wait[q][k]
    BY <1>1, <2>3 DEF GetLoading, GetHit, GetMiss, Notice, NoticeClosed, TypeOK
  <2>4. ~GetLoading(q, k) /\ ~GetHit(q, k) /\ ~GetMiss(q, k) /\ ~Notice(q, k)
    BY <1>1, <2>1 DEF GetLoading, GetHit, GetMiss, Notice, Asks, Waits
  <2>5. ASSUME NEW r \in Queries, EndQuery(r) PROVE wait'[q][k] # Got
    BY <1>1, <2>1, <2>5 DEF EndQuery, TypeOK
  <2>6. ~UNCHANGED wait
    BY <1>1, <2>1
  <2> QED
    BY <1>1, <2>1, <2>2, <2>3, <2>4, <2>5, <2>6
    DEF Next, Serve, Task, Answer, QueryTimesOut, Finish, LoadTimesOut, Store, AcquirePermit,
        Send, Admit, ReadLocal, Panic, Tick, vars
<1>2. TypeOK /\ [Next]_vars =>
        [\A q \in Queries, k \in Kinds, l \in Channels :
           (Waits(q, k, l) /\ load[l].pc = "dead" /\ wait'[q][k] = Got)
               => ~(entry'[k].state = "loading" /\ entry'[k].channel = l)]_vars
  BY <1>1
<1> QED
  BY <1>2, InitTypeOK, NextTypeOK, InitInv, NextInv, PTL DEF Spec, DeadLoadForgotten
-----------------------------------------------------------------------------
(* Time.  A query that was in time for the Docker evidence has it in time.   *)

\* A set of numbers has a least one.
LEMMA LeastNumber == ASSUME NEW S \in SUBSET Nat, S # {} PROVE \E x \in S : \A y \in S : ~(y < x)
<1> DEFINE R == OpToRel(<, Nat)
<1>1. IsWellFoundedOn(R, Nat)
  BY NatLessThanWellFounded
<1>2. \E x \in S : \A y \in S : <<y, x>> \notin R
  <2> HIDE DEF R
  <2> QED
    BY <1>1, WFMin
<1>3. \A x, y \in Nat : y < x => <<y, x>> \in R
  BY DEF OpToRel
<1> QED
  BY <1>2, <1>3

\* The cache waits only for a load that has not stored its result, and that is of its kind.
EntryTracked(k) ==
    entry[k].state = "loading" =>
        /\ entry[k].channel \in Channels
        /\ load[entry[k].channel].pc \in {"queued", "running", "dead"}
        /\ Active(entry[k].channel) => load[entry[k].channel].kind = k
\* A query never waits on a channel that is gone.
WaitTracked(q, k) ==
    wait[q][k].state = "wait" =>
        /\ wait[q][k].channel \in Channels
        /\ load[wait[q][k].channel].pc # "none"
Tracked == /\ \A k \in Kinds : EntryTracked(k)
           /\ \A q \in Queries, k \in Kinds : WaitTracked(q, k)

\* What a query needs time for still fits into its timeout: a load takes no
\* longer than LoadTimeout, and an answer that has come needs no time.
InTimeFor(q, k) ==
    /\ wait[q][k].state = "ask" => query[q].age < QueryTimeout - LoadTimeout
    /\ wait[q][k].state = "wait" =>
         LET l == wait[q][k].channel
         IN  IF Active(l) THEN query[q].age < load[l].age + (QueryTimeout - LoadTimeout)
             ELSE query[q].age < QueryTimeout
InTime ==
    lag = 0 => \A q \in Queries :
        query[q].pc = "get" /\ ~query[q].slow => \A k \in Kinds : InTimeFor(q, k)

TimeInv == Inv /\ TypeOK /\ Tracked /\ InTime

LEMMA InitTimeInv == Init => TimeInv
<1> SUFFICES ASSUME Init PROVE TimeInv
  OBVIOUS
<1>1. Tracked
  BY DEF Init, Tracked, EntryTracked, WaitTracked, NoEntry, Ask
<1>2. InTime
  BY DEF Init, InTime, NoQuery
<1> QED
  BY <1>1, <1>2, InitInv, InitTypeOK DEF TimeInv

\* A channel that is referred to is kept.
LEMMA TidyKeeps ==
  ASSUME NEW ld \in [Channels -> Load], NEW en, NEW wt, NEW l \in Channels,
         \/ \E k \in Kinds : en[k].state = "loading" /\ en[k].channel = l
         \/ \E q \in Queries, k \in Kinds : wt[q][k].state = "wait" /\ wt[q][k].channel = l
  PROVE  Tidy(ld, en, wt)[l] = ld[l]
BY DEF Tidy, Dropped

\* What a step may do to a load that somebody refers to: it goes on, or it ends.
GoesOn(l) ==
    \/ load'[l] = load[l]
    \/ Active(l) /\ load'[l] = [load[l] EXCEPT !.pc = "running"]
    \/ load[l].pc # "none" /\ load'[l].pc \in {"stored", "sent", "dead"}

\* Steps that take no time and join no load.
LEMMA StepTime ==
  ASSUME TimeInv, TypeOK', lag' = lag,
         \A k \in Kinds : entry'[k] = entry[k] \/ entry'[k].state # "loading",
         \A q \in Queries, k \in Kinds : wait'[q][k] = wait[q][k] \/ wait'[q][k].state # "wait",
         \A q \in Queries : query'[q].pc = "get" =>
             query'[q] = query[q] /\ \A k \in Kinds : wait'[q][k] = wait[q][k] \/ wait'[q][k].state = "got",
         \A k \in Kinds : entry'[k].state = "loading" =>
             GoesOn(entry[k].channel) /\ load'[entry[k].channel].pc \notin {"stored", "sent"},
         \A q \in Queries, k \in Kinds : wait'[q][k].state = "wait" => GoesOn(wait[q][k].channel)
  PROVE  Tracked' /\ InTime'
<1>1. ASSUME NEW k \in Kinds, entry'[k].state = "loading" PROVE EntryTracked(k)'
  <2>1. entry'[k] = entry[k] /\ EntryTracked(k) /\ entry[k].state = "loading"
    BY <1>1 DEF TimeInv, Tracked
  <2>a. PICK l \in Channels : l = entry[k].channel
    BY <2>1 DEF EntryTracked
  <2>2. /\ load[l].pc \in {"queued", "running", "dead"}
        /\ Active(l) => load[l].kind = k
        /\ GoesOn(l) /\ load'[l].pc \notin {"stored", "sent"} /\ load[l] \in Load
    BY <1>1, <2>1, <2>a DEF EntryTracked, TimeInv, TypeOK
  <2>3. load'[l].pc \in {"queued", "running", "dead"} /\ (Active(l)' => load'[l].kind = k)
    BY <2>2 DEF GoesOn, Active, Load
  <2> QED
    BY <2>1, <2>a, <2>2, <2>3 DEF EntryTracked, Active
<1>2. ASSUME NEW q \in Queries, NEW k \in Kinds, wait'[q][k].state = "wait"
      PROVE  WaitTracked(q, k)' /\ wait'[q][k] = wait[q][k]
  <2>1. wait'[q][k] = wait[q][k] /\ WaitTracked(q, k) /\ wait[q][k].state = "wait"
    BY <1>2 DEF TimeInv, Tracked
  <2> DEFINE l == wait[q][k].channel
  <2>2. l \in Channels /\ load[l].pc # "none" /\ GoesOn(l) /\ load[l] \in Load
    BY <1>2, <2>1 DEF WaitTracked, TimeInv, TypeOK
  <2> HIDE DEF l
  <2>3. load'[l].pc # "none"
    BY <2>2 DEF GoesOn, Load
  <2> QED
    BY <2>1, <2>2, <2>3 DEF WaitTracked, l
<1>3. ASSUME lag = 0, NEW q \in Queries, query'[q].pc = "get", ~query'[q].slow, NEW k \in Kinds
      PROVE  InTimeFor(q, k)'
  <2>1. query'[q] = query[q] /\ InTimeFor(q, k)
    BY <1>3 DEF TimeInv, InTime
  <2>2. wait'[q][k] = wait[q][k] \/ wait'[q][k].state = "got"
    BY <1>3
  <2>3. CASE wait'[q][k].state = "wait"
    <3>a. wait'[q][k] = wait[q][k] /\ wait[q][k].channel \in Channels
      BY <1>2, <2>3 DEF WaitTracked
    <3>b. PICK l \in Channels : l = wait[q][k].channel
      BY <3>a
    <3>1. GoesOn(l)
      BY <2>3, <3>b
    <3>2. load[l] \in Load /\ load'[l] \in Load /\ query[q].age \in Nat
      BY DEF TimeInv, TypeOK, Query
    <3>3. IF Active(l) THEN query[q].age < load[l].age + (QueryTimeout - LoadTimeout)
          ELSE query[q].age < QueryTimeout
      BY <2>1, <2>3, <3>a, <3>b DEF InTimeFor
    <3>4. IF Active(l)' THEN query[q].age < load'[l].age + (QueryTimeout - LoadTimeout)
          ELSE query[q].age < QueryTimeout
      <4>1. CASE load'[l] = load[l]
        BY <3>3, <4>1 DEF Active
      <4>2. CASE Active(l) /\ load'[l] = [load[l] EXCEPT !.pc = "running"]
        BY <3>2, <3>3, <4>2 DEF Active, Load
      <4>3. CASE load'[l].pc \in {"stored", "sent", "dead"}
        <5>1. load[l].age \in 0 .. LoadTimeout
          BY <3>2 DEF Load
        <5> QED
          BY <3>2, <3>3, <4>3, <5>1, TimesAssumption DEF Active
      <4> QED
        BY <3>1, <4>1, <4>2, <4>3 DEF GoesOn
    <3> QED
      BY <2>1, <2>3, <3>a, <3>b, <3>4 DEF InTimeFor, Active
  <2>4. CASE wait'[q][k].state # "wait"
    BY <2>1, <2>2, <2>4 DEF InTimeFor
  <2> QED
    BY <2>3, <2>4
<1> QED
  BY <1>1, <1>2, <1>3 DEF Tracked, EntryTracked, WaitTracked, InTime

\* A query starts, or is ready to ask.
LEMMA LocalTime ==
  ASSUME TimeInv, TypeOK', NEW q \in Queries, Admit(q) \/ ReadLocal(q)
  PROVE  Tracked' /\ InTime'
<1>1. UNCHANGED <<entry, load, wait, lag>> /\ \A r \in Queries : r # q => query'[r] = query[r]
  BY DEF Admit, ReadLocal, TimeInv, TypeOK
<1>2. Tracked'
  BY <1>1 DEF TimeInv, Tracked, EntryTracked, WaitTracked, Active
<1>7. ASSUME lag' = 0, NEW r \in Queries, r # q, query'[r].pc = "get", ~query'[r].slow, NEW k \in Kinds
      PROVE  InTimeFor(r, k)'
  <2>1. InTimeFor(r, k) /\ query'[r] = query[r]
    BY <1>1, <1>7 DEF TimeInv, InTime
  <2> QED
    BY <1>1, <2>1 DEF InTimeFor, Active
<1>3. ASSUME lag' = 0, query'[q].pc = "get", ~query'[q].slow, NEW k \in Kinds PROVE InTimeFor(q, k)'
  <2>1. query'[q].age = query[q].age /\ query[q].age < QueryTimeout - LoadTimeout /\ query[q].age \in Nat
    BY <1>3, TimesAssumption DEF Admit, ReadLocal, TimeInv, TypeOK, Query
  <2>2. wait[q][k].state = "wait" => load[wait[q][k].channel].age \in Nat
    BY DEF TimeInv, Tracked, WaitTracked, TypeOK, Load
  <2> QED
    BY <1>1, <2>1, <2>2, TimesAssumption DEF InTimeFor, Active
<1>4. SUFFICES ASSUME lag' = 0, NEW r \in Queries, query'[r].pc = "get", ~query'[r].slow, NEW k \in Kinds
               PROVE  InTimeFor(r, k)'
  BY <1>2 DEF InTime
<1> QED
  BY <1>3, <1>4, <1>7

\* A query joins the load that the cache waits for.
LEMMA GetLoadingTime ==
  ASSUME TimeInv, TypeOK', NEW q \in Queries, NEW k \in Kinds, GetLoading(q, k)
  PROVE  Tracked' /\ InTime'
<1>1. UNCHANGED <<entry, load, query, lag>>
  BY DEF GetLoading
<1>2. PICK l \in Channels : l = entry[k].channel /\ load[l].pc # "none"
  BY DEF GetLoading, TimeInv, Tracked, EntryTracked
<1>3. /\ wait'[q][k].state = "wait" /\ wait'[q][k].channel = l
      /\ \A r \in Queries, j \in Kinds : r # q \/ j # k => wait'[r][j] = wait[r][j]
  <2>1. wait' = [wait EXCEPT ![q] = [wait[q] EXCEPT ![k] =
                   [wait[q][k] EXCEPT !.state = "wait", !.channel = l]]]
    BY <1>2 DEF GetLoading, TimeInv, TypeOK, Wait
  <2>2. wait[q][k] \in Wait
    BY DEF TimeInv, TypeOK
  <2> QED
    BY <2>1, <2>2, JoinedType DEF TimeInv, TypeOK
<1>4. Tracked'
  BY <1>1, <1>2, <1>3 DEF TimeInv, Tracked, EntryTracked, WaitTracked, Active
<1>5. ASSUME lag = 0, query[q].pc = "get", ~query[q].slow PROVE InTimeFor(q, k)'
  <2>1. query[q].age < QueryTimeout - LoadTimeout /\ query[q].age \in Nat /\ load[l].age \in Nat
    BY <1>5 DEF GetLoading, Asks, TimeInv, InTime, InTimeFor, TypeOK, Query, Load
  <2> QED
    BY <1>1, <1>3, <2>1, TimesAssumption DEF InTimeFor, Active
<1> QED
  BY <1>1, <1>3, <1>4, <1>5 DEF TimeInv, InTime, InTimeFor, Active

\* A query starts a load.
LEMMA GetMissTime ==
  ASSUME TimeInv, TypeOK', NEW q \in Queries, NEW k \in Kinds, GetMiss(q, k)
  PROVE  Tracked' /\ InTime'
<1>1. UNCHANGED <<query, lag>>
  BY DEF GetMiss
<1>2. PICK l \in Channels :
        /\ load[l].pc = "none"
        /\ entry' = [entry EXCEPT ![k] = [NoEntry EXCEPT !.state = "loading", !.channel = l]]
        /\ load' = [load EXCEPT ![l] = [load[l] EXCEPT !.pc = "queued", !.kind = k]]
        /\ wait' = [wait EXCEPT ![q] = [wait[q] EXCEPT ![k] =
                   [wait[q][k] EXCEPT !.state = "wait", !.channel = l]]]
  <2> DEFINE c == CHOOSE d \in Unused : TRUE
  <2>1. c \in Channels /\ load[c].pc = "none"
    BY DEF GetMiss, Unused
  <2>2. /\ entry' = [entry EXCEPT ![k] = [NoEntry EXCEPT !.state = "loading", !.channel = c]]
        /\ load' = [load EXCEPT ![c].pc = "queued", ![c].kind = k]
        /\ wait' = [wait EXCEPT ![q][k].state = "wait", ![q][k].channel = c]
    BY DEF GetMiss
  <2> HIDE DEF c
  <2>3. load' = [load EXCEPT ![c] = [load[c] EXCEPT !.pc = "queued", !.kind = k]]
    BY <2>1, <2>2 DEF TimeInv, TypeOK, Load
  <2>4. wait' = [wait EXCEPT ![q] = [wait[q] EXCEPT ![k] =
                   [wait[q][k] EXCEPT !.state = "wait", !.channel = c]]]
    BY <2>2 DEF TimeInv, TypeOK, Wait
  <2> QED
    BY <2>1, <2>2, <2>3, <2>4
<1>3. /\ wait'[q][k].state = "wait" /\ wait'[q][k].channel = l
      /\ \A r \in Queries, j \in Kinds : r # q \/ j # k => wait'[r][j] = wait[r][j]
  <2>1. wait[q][k] \in Wait
    BY DEF TimeInv, TypeOK
  <2> QED
    BY <1>2, <2>1, JoinedType DEF TimeInv, TypeOK
<1>4. /\ entry'[k].state = "loading" /\ entry'[k].channel = l
      /\ \A j \in Kinds : j # k => entry'[j] = entry[j]
  BY <1>2, EntryType DEF TimeInv, TypeOK
<1>5. /\ load[l] \in Load /\ load'[l].pc = "queued" /\ load'[l].kind = k /\ load'[l].age = load[l].age
      /\ \A m \in Channels : m # l => load'[m] = load[m]
  <2>1. load[l] \in Load
    BY DEF TimeInv, TypeOK
  <2> QED
    BY <1>2, <2>1 DEF TimeInv, TypeOK, Load
<1>6. ASSUME NEW j \in Kinds PROVE EntryTracked(j)'
  <2>1. CASE j = k
    BY <1>4, <1>5, <2>1 DEF EntryTracked
  <2>2. CASE j # k
    <3>1. EntryTracked(j) /\ entry'[j] = entry[j]
      BY <1>4, <2>2 DEF TimeInv, Tracked
    <3>2. entry[j].state = "loading" => entry[j].channel # l
      BY <1>2, <3>1 DEF EntryTracked
    <3> QED
      BY <1>5, <3>1, <3>2 DEF EntryTracked, Active
  <2> QED
    BY <2>1, <2>2
<1>7. ASSUME NEW r \in Queries, NEW j \in Kinds, r # q \/ j # k
      PROVE  /\ WaitTracked(r, j)' /\ wait'[r][j] = wait[r][j]
             /\ wait[r][j].state = "wait" =>
                  wait[r][j].channel \in Channels /\ load'[wait[r][j].channel] = load[wait[r][j].channel]
  <2>1. WaitTracked(r, j) /\ wait'[r][j] = wait[r][j]
    BY <1>3, <1>7 DEF TimeInv, Tracked
  <2>2. wait[r][j].state = "wait" => wait[r][j].channel # l
    BY <1>2, <2>1 DEF WaitTracked
  <2> QED
    BY <1>5, <2>1, <2>2 DEF WaitTracked
<1>8. WaitTracked(q, k)'
  BY <1>3, <1>5 DEF WaitTracked
<1>9. ASSUME lag = 0, query[q].pc = "get", ~query[q].slow PROVE InTimeFor(q, k)'
  <2>1. query[q].age < QueryTimeout - LoadTimeout /\ query[q].age \in Nat /\ load[l].age \in Nat
    <3>1. InTimeFor(q, k) /\ wait[q][k].state = "ask"
      BY <1>9 DEF GetMiss, Asks, TimeInv, InTime
    <3>2. query[q].age \in Nat /\ load[l].age \in Nat
      BY <1>5 DEF TimeInv, TypeOK, Query, Load
    <3> QED
      BY <3>1, <3>2 DEF InTimeFor
  <2> QED
    BY <1>1, <1>3, <1>5, <2>1, TimesAssumption DEF InTimeFor, Active
<1>10. ASSUME lag = 0, NEW r \in Queries, NEW j \in Kinds, r # q \/ j # k, query[r].pc = "get", ~query[r].slow
       PROVE  InTimeFor(r, j)'
  <2>1. InTimeFor(r, j)
    BY <1>10 DEF TimeInv, InTime
  <2> QED
    BY <1>1, <1>7, <1>10, <2>1 DEF InTimeFor, Active
<1> QED
  BY <1>1, <1>6, <1>7, <1>8, <1>9, <1>10 DEF Tracked, InTime

\* Time passes: nothing that takes no time is due, unless the host lags.
LEMMA TickTime == ASSUME TimeInv, TypeOK', Tick PROVE Tracked' /\ InTime'
<1>1. /\ UNCHANGED wait
      /\ \A k \in Kinds : entry[k].state = "loading" \/ entry'[k].state = "loading" => entry'[k] = entry[k]
  BY DEF Tick, TimeInv, TypeOK, Entry
<1>2. ASSUME NEW l \in Channels
      PROVE  /\ load'[l].pc = load[l].pc /\ load'[l].kind = load[l].kind /\ Active(l)' = Active(l)
             /\ Active(l) => load'[l].age = load[l].age + 1
  <2>1. load[l] \in Load /\ load' = [m \in Channels |->
         IF Active(m) THEN [load[m] EXCEPT !.age = @ + 1] ELSE load[m]]
    BY DEF Tick, TimeInv, TypeOK
  <2> QED
    BY <2>1 DEF Load, Active
<1>3. Tracked'
  BY <1>1, <1>2 DEF TimeInv, Tracked, EntryTracked, WaitTracked
<1>4. ASSUME lag' = 0, NEW q \in Queries, query'[q].pc = "get", ~query'[q].slow, NEW k \in Kinds
      PROVE  InTimeFor(q, k)'
  <2>1. lag = 0 /\ ~Due
    BY <1>4 DEF Tick, TimeInv, TypeOK
  <2>2. /\ query[q].pc = "get" /\ ~query[q].slow /\ query[q] \in Query
        /\ query'[q].age = query[q].age + 1
    BY <1>4 DEF Tick, TimeInv, TypeOK, Query
  <2>3. \A j \in Kinds : wait[q][j].state # "ask"
    <3> DEFINE S == {j \in Kinds : wait[q][j].state = "ask"}
    <3> SUFFICES ASSUME S # {} PROVE FALSE
      OBVIOUS
    <3>1. PICK j \in S : \A i \in S : ~(i < j)
      <4>1. S \in SUBSET Nat
        BY KindsAssumption DEF Kinds
      <4> HIDE DEF S
      <4> QED
        BY <4>1, LeastNumber
    <3>2. Asks(q, j)
      BY <2>2, <3>1 DEF Asks
    <3> QED
      BY <2>1, <3>1, <3>2 DEF Due
  <2>4. CASE wait[q][k].state = "wait"
    <3>1. PICK l \in Channels : l = wait[q][k].channel /\ load[l].pc # "none"
      BY <2>4 DEF TimeInv, Tracked, WaitTracked
    <3>2. Waits(q, k, l)
      BY <2>4, <3>1 DEF Waits
    <3>3. load[l].pc \notin {"stored", "sent", "dead"} /\ load[l] \in Load
      BY <2>1, <3>2 DEF Due, TimeInv, TypeOK
    <3>4. Active(l)
      BY <3>1, <3>3 DEF Active, Load
    <3>5. query[q].age < load[l].age + (QueryTimeout - LoadTimeout)
      BY <2>1, <2>2, <2>4, <3>1, <3>4 DEF TimeInv, InTime, InTimeFor
    <3>6. query'[q].age < load'[l].age + (QueryTimeout - LoadTimeout)
      <4>1. query[q].age \in Nat /\ load[l].age \in Nat
        BY <2>2, <3>3 DEF Query, Load
      <4> QED
        BY <1>2, <2>2, <3>4, <3>5, <4>1, TimesAssumption
    <3> QED
      BY <1>1, <1>2, <2>4, <3>1, <3>4, <3>6 DEF InTimeFor
  <2> QED
    BY <1>1, <2>3, <2>4 DEF InTimeFor
<1> QED
  BY <1>3, <1>4 DEF InTime

\* A query has its evidence, or a query ends: only unused channels are dropped.
LEMMA NoticeTime ==
  ASSUME TimeInv, TypeOK', NEW q \in Queries,
         EndQuery(q) \/ \E k \in Kinds : GetHit(q, k) \/ Notice(q, k) \/ NoticeClosed(q, k)
  PROVE  Tracked' /\ InTime'
<1>1. lag' = lag /\ (load' = load \/ load' = Tidy(load, entry', wait'))
  BY DEF EndQuery, GetHit, Notice, NoticeClosed
<1>2. \A k \in Kinds : entry'[k] = entry[k] \/ entry'[k].state # "loading"
  <2>1. [NoEntry EXCEPT !.state = "ready"].state = "ready"
    BY DEF NoEntry
  <2> QED
    BY <2>1 DEF EndQuery, GetHit, Notice, NoticeClosed, TimeInv, TypeOK
<1>3. Got.state = "got" /\ Ask.state = "ask" /\ NoQuery.pc = "idle"
  BY DEF Got, Ask, NoQuery
<1>4. \A r \in Queries, k \in Kinds : wait'[r][k] = wait[r][k] \/ wait'[r][k].state # "wait"
  BY <1>3 DEF EndQuery, GetHit, Notice, NoticeClosed, TimeInv, TypeOK
<1>5. ASSUME NEW r \in Queries, query'[r].pc = "get"
      PROVE  query'[r] = query[r] /\ \A k \in Kinds : wait'[r][k] = wait[r][k] \/ wait'[r][k].state = "got"
  <2>1. CASE EndQuery(q)
    BY <1>3, <1>5, <2>1 DEF EndQuery, TimeInv, TypeOK
  <2>2. CASE \E k \in Kinds : GetHit(q, k) \/ Notice(q, k) \/ NoticeClosed(q, k)
    BY <1>3, <2>2 DEF GetHit, Notice, NoticeClosed, TimeInv, TypeOK
  <2> QED
    BY <2>1, <2>2
<1>6. ASSUME NEW k \in Kinds, entry'[k].state = "loading"
      PROVE  GoesOn(entry[k].channel) /\ load'[entry[k].channel].pc \notin {"stored", "sent"}
  <2>1. entry'[k] = entry[k] /\ EntryTracked(k) /\ load \in [Channels -> Load]
    BY <1>2, <1>6 DEF TimeInv, Tracked, TypeOK
  <2>2. PICK l \in Channels : l = entry[k].channel /\ load[l].pc \in {"queued", "running", "dead"}
    BY <1>6, <2>1 DEF EntryTracked
  <2>3. load'[l] = load[l]
    BY <1>1, <1>6, <2>1, <2>2, TidyKeeps
  <2> QED
    BY <2>2, <2>3 DEF GoesOn
<1>7. ASSUME NEW r \in Queries, NEW k \in Kinds, wait'[r][k].state = "wait"
      PROVE  GoesOn(wait[r][k].channel)
  <2>1. wait'[r][k] = wait[r][k] /\ WaitTracked(r, k) /\ load \in [Channels -> Load]
    BY <1>4, <1>7 DEF TimeInv, Tracked, TypeOK
  <2>2. PICK l \in Channels : l = wait[r][k].channel
    BY <1>7, <2>1 DEF WaitTracked
  <2>3. load'[l] = load[l]
    BY <1>1, <1>7, <2>1, <2>2, TidyKeeps
  <2> QED
    BY <2>2, <2>3 DEF GoesOn
<1> QED
  BY <1>1, <1>2, <1>4, <1>5, <1>6, <1>7, StepTime

\* A load gets its permit, ends, sends its result or dies.
LEMMA TaskTime ==
  ASSUME TimeInv, TypeOK', NEW l \in Channels, Task(l) \/ Panic(l)
  PROVE  Tracked' /\ InTime'
<1>1. UNCHANGED <<wait, query, lag>> /\ load \in [Channels -> Load]
  BY DEF Task, Panic, AcquirePermit, LoadTimesOut, Finish, Store, Send, TimeInv, TypeOK
<1>2. ASSUME NEW k \in Kinds, entry[k].state = "loading" PROVE entry[k].channel \in Channels
  BY <1>2 DEF TimeInv, Tracked, EntryTracked
<1>3. ASSUME NEW q \in Queries, NEW k \in Kinds, wait[q][k].state = "wait" PROVE wait[q][k].channel \in Channels
  BY <1>3 DEF TimeInv, Tracked, WaitTracked
<1>4. CASE AcquirePermit(l) \/ Panic(l)
  <2>1. \A m \in Channels : GoesOn(m) /\ load'[m].pc \in {load[m].pc, "running", "dead"}
    <3>1. CASE AcquirePermit(l)
      BY <1>1, <3>1 DEF AcquirePermit, GoesOn, Active, Load
    <3>2. CASE Panic(l)
      <4>1. [NoLoad EXCEPT !.pc = "dead"].pc = "dead"
        BY DEF NoLoad
      <4> QED
        BY <1>1, <3>2, <4>1 DEF Panic, GoesOn, Active
    <3> QED
      BY <1>4, <3>1, <3>2
  <2>2. UNCHANGED entry
    BY <1>4 DEF AcquirePermit, Panic
  <2>3. \A k \in Kinds : entry'[k].state = "loading" =>
             GoesOn(entry[k].channel) /\ load'[entry[k].channel].pc \notin {"stored", "sent"}
    BY <1>2, <2>1, <2>2 DEF TimeInv, Tracked, EntryTracked
  <2> QED
    BY <1>1, <1>3, <2>1, <2>2, <2>3, StepTime
<1>5. CASE Active(l) /\ \E ok \in BOOLEAN : Store(l, ok)
  <2>1. PICK ok \in BOOLEAN : Store(l, ok)
    BY <1>5
  <2>2. /\ load'[l].pc = "stored" /\ \A m \in Channels : m # l => load'[m] = load[m]
    <3>1. [NoLoad EXCEPT !.pc = "stored"].pc = "stored"
      BY DEF NoLoad
    <3> QED
      BY <1>1, <2>1, <3>1 DEF Store
  <2>3. \A m \in Channels : GoesOn(m)
    BY <1>5, <2>2 DEF GoesOn, Active
  <2>4. /\ entry'[load[l].kind].state = "ready"
        /\ \A k \in Kinds : k # load[l].kind => entry'[k] = entry[k]
    <3>1. [NoEntry EXCEPT !.state = "ready", !.ok = ok].state = "ready"
      BY DEF NoEntry
    <3>2. load[l].kind \in Kinds
      BY <1>1 DEF Load
    <3> QED
      BY <2>1, <3>1, <3>2 DEF Store, TimeInv, TypeOK
  <2>5. ASSUME NEW k \in Kinds, entry'[k].state = "loading"
        PROVE  GoesOn(entry[k].channel) /\ load'[entry[k].channel].pc \notin {"stored", "sent"}
    <3>1. entry'[k] = entry[k] /\ k # load[l].kind /\ EntryTracked(k)
      BY <2>4, <2>5 DEF TimeInv, Tracked
    <3>2. entry[k].channel # l
      BY <1>5, <2>5, <3>1 DEF EntryTracked
    <3> QED
      BY <2>2, <2>3, <2>5, <3>1, <3>2 DEF EntryTracked
  <2> QED
    BY <1>1, <1>3, <2>3, <2>4, <2>5, StepTime
<1>6. CASE Send(l)
  <2> DEFINE ld == [load EXCEPT ![l] = [load[l] EXCEPT !.pc = "sent"]]
  <2>1. /\ load[l].pc = "stored" /\ load' = Tidy(ld, entry, wait) /\ UNCHANGED entry
        /\ ld \in [Channels -> Load] /\ ld[l].pc = "sent" /\ \A m \in Channels : m # l => ld[m] = load[m]
    BY <1>1, <1>6 DEF Send, Load
  <2> HIDE DEF ld
  <2>2. ASSUME NEW k \in Kinds, entry'[k].state = "loading"
        PROVE  GoesOn(entry[k].channel) /\ load'[entry[k].channel].pc \notin {"stored", "sent"}
    <3>1. EntryTracked(k) /\ entry[k].state = "loading"
      BY <2>1, <2>2 DEF TimeInv, Tracked
    <3>2. PICK m \in Channels : m = entry[k].channel /\ load[m].pc \in {"queued", "running", "dead"}
      BY <3>1 DEF EntryTracked
    <3>3. load'[m] = load[m]
      BY <2>1, <3>1, <3>2, TidyKeeps
    <3> QED
      BY <3>2, <3>3 DEF GoesOn
  <2>3. ASSUME NEW q \in Queries, NEW k \in Kinds, wait[q][k].state = "wait"
        PROVE  GoesOn(wait[q][k].channel)
    <3>1. PICK m \in Channels : m = wait[q][k].channel
      BY <1>3, <2>3
    <3>2. load'[m] = ld[m]
      BY <2>1, <2>3, <3>1, TidyKeeps
    <3> QED
      BY <2>1, <3>1, <3>2 DEF GoesOn
  <2> QED
    BY <1>1, <2>1, <2>2, <2>3, StepTime
<1> QED
  BY <1>4, <1>5, <1>6 DEF Task, Finish, LoadTimesOut, Active

LEMMA NextTime == TimeInv /\ [Next]_vars => TimeInv'
<1> SUFFICES ASSUME TimeInv, [Next]_vars PROVE Tracked' /\ InTime'
  BY NextInv, NextTypeOK DEF TimeInv
<1>1. TypeOK'
  BY NextTypeOK DEF TimeInv
<1>2. CASE UNCHANGED vars
  BY <1>2 DEF TimeInv, Tracked, EntryTracked, WaitTracked, InTime, InTimeFor, Active, vars
<1>3. CASE Next
  BY <1>1, <1>3, LocalTime, GetLoadingTime, GetMissTime, TickTime, NoticeTime, TaskTime
  DEF Next, Serve, Answer, QueryTimesOut
<1> QED
  BY <1>2, <1>3

\* A query that read the local files in time is never cut off while it waits
\* for Docker, unless the host lags: whichever load it joined, and at whatever
\* age, that load has ended before.
THEOREM OnlySlowReadsTimeOut == Spec => TimeoutOnlyForSlowReads
<1>1. ASSUME TimeInv, NEW q \in Queries, lag = 0, QueryTimesOut(q), query[q].pc = "get", ~Answer(q)
      PROVE  query[q].slow
  <2> SUFFICES ASSUME ~query[q].slow PROVE FALSE
    OBVIOUS
  <2>1. query[q].age = QueryTimeout
    BY <1>1 DEF QueryTimesOut
  <2>2. PICK k \in Kinds : wait[q][k].state # "got"
    BY <1>1 DEF QueryTimesOut, Answer
  <2>3. InTimeFor(q, k) /\ wait[q][k] \in Wait
    BY <1>1 DEF TimeInv, InTime, TypeOK
  <2>4. wait[q][k].state # "ask"
    BY <2>1, <2>3, TimesAssumption DEF InTimeFor
  <2>5. wait[q][k].state = "wait"
    BY <2>2, <2>3, <2>4 DEF Wait
  <2>6. PICK l \in Channels : l = wait[q][k].channel
    BY <1>1, <2>5 DEF TimeInv, Tracked, WaitTracked
  <2>7. load[l].age \in 0 .. LoadTimeout
    BY <1>1 DEF TimeInv, TypeOK, Load
  <2> QED
    BY <2>1, <2>3, <2>5, <2>6, <2>7, TimesAssumption DEF InTimeFor
<1>2. TimeInv /\ [Next]_vars =>
        [\A q \in Queries : (lag = 0 /\ QueryTimesOut(q) /\ query[q].pc = "get" /\ ~Answer(q))
             => query[q].slow]_vars
  BY <1>1
<1> QED
  BY <1>2, InitTimeInv, NextTime, PTL DEF Spec, TimeoutOnlyForSlowReads
=============================================================================
