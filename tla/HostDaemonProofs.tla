-------------------------- MODULE HostDaemonProofs --------------------------
(***************************************************************************)
(* For any number of sessions, inodes and profiles: HostDaemon is type      *)
(* correct, who begins while a daemon answers spares it, and when all       *)
(* sessions have ended without a crash no socket file is left.              *)
(***************************************************************************)
EXTENDS HostDaemon, TLAPS

\* There is a profile.
LEMMA AnyProfileType == AnyProfile \in Profiles
BY ProfilesAssumption DEF AnyProfile

\* The value that is written as the inode of the metadata is an inode.
StatSeen == \A s \in Sessions : pc[s] \in {"write", "rewrite"} => stat[s] \in Inos

TypeInv == TypeOK /\ StatSeen

\* The types of what every step changes beside the session's own variables.
Counted == faults' \in 0 .. MaxFaults /\ met' \in [Sessions -> {0} \cup Inos]

\* What a session has met is an inode.
LEMMA TrackType == ASSUME TypeInv, Track PROVE met' \in [Sessions -> {0} \cup Inos]
BY DEF TypeInv, TypeOK, Track, Answering

\* The type invariant holds at first.
LEMMA InitTypeInv == Init => TypeInv
<1> SUFFICES ASSUME Init PROVE TypeInv
  OBVIOUS
<1>1. profile \in [Sessions -> Profiles]
  BY AnyProfileType DEF Init
<1>2. faults \in 0 .. MaxFaults
  BY BoundsAssumption DEF Init
<1>3. TypeOK
  BY <1>1, <1>2 DEF Init, TypeOK, Pcs
<1> QED
  BY <1>3 DEF Init, TypeInv, StatSeen

\* What Forget and FailFrom leave is of the right type.
LEMMA ForgetType ==
  ASSUME TypeInv, NEW s \in Sessions, Forget(s) \/ FailFrom(s) \/ AcceptFrom(s)
  PROVE  /\ pc' \in [Sessions -> Pcs]
         /\ call' \in [Sessions -> {"up", "check", "retry", "down"}]
         /\ profile' \in [Sessions -> Profiles]
         /\ daemon' \in [Sessions -> {0} \cup Inos]
         /\ fresh' \in [Sessions -> {0} \cup Inos]
         /\ stat' \in [Sessions -> {0} \cup Inos]
         /\ StatSeen'
<1>1. CASE Forget(s)
  BY <1>1, AnyProfileType DEF TypeInv, TypeOK, StatSeen, Forget, Pcs
<1>2. CASE AcceptFrom(s)
  BY <1>2 DEF TypeInv, TypeOK, StatSeen, AcceptFrom, Pcs
<1>3. CASE FailFrom(s) /\ call[s] # "up"
  BY <1>3 DEF TypeInv, TypeOK, StatSeen, FailFrom, Pcs
<1> QED
  BY <1>1, <1>2, <1>3 DEF FailFrom

\* The listeners after one or all of a session's are closed.
LEMMA SilenceType ==
  ASSUME TypeInv, NEW i, NEW s \in Sessions
  PROVE  /\ Silence(i) \in [Inos -> Sessions \cup {NoSession}]
         /\ SilenceAll(s) \in [Inos -> Sessions \cup {NoSession}]
BY DEF TypeInv, TypeOK, Silence, SilenceAll

\* Steps that move a session on, or change what only it knows.
PlainStep(s) ==
    \/ Listen(s) \/ AddrInUse(s) \/ Inspect(s) \/ ProbeRefused(s) \/ UnlinkStale(s)
    \/ Chmod(s) \/ Stat(s) \/ DropMeta(s) \/ ReuseStat(s) \/ Tick(s) \/ Connect(s)
    \/ StartCleanup(s) \/ CloseListener(s) \/ AcceptFails(s)

\* Steps through which an error or the end of a command passes.
EndingStep(s) ==
    \/ CleanMeta(s) \/ RebindFails(s) \/ ChmodFails(s) \/ StatFails(s)
    \/ SealFails(s) \/ DropSock(s)
    \/ RefuseQuery(s) \/ Crash(s) \/ WriteFails(s)

\* Plain steps keep the types.
LEMMA PlainStepType ==
  ASSUME TypeInv, NEW s \in Sessions, PlainStep(s), Counted
  PROVE  TypeInv'
<1> USE DEF Counted
<1>1. CASE AddrInUse(s) \/ Inspect(s) \/ ProbeRefused(s) \/ Chmod(s) \/ Tick(s) \/ Connect(s)
  BY <1>1 DEF TypeInv, TypeOK, StatSeen, Goto, Pcs, AddrInUse, Inspect, AfterStale,
              ProbeRefused, Chmod, Tick, Connect, files, local
<1>2. CASE UnlinkStale(s) \/ DropMeta(s)
  BY <1>2 DEF TypeInv, TypeOK, StatSeen, Goto, Pcs, UnlinkStale, AfterStale, DropMeta, local
<1>3. CASE Stat(s) \/ ReuseStat(s) \/ StartCleanup(s)
  BY <1>3 DEF TypeInv, TypeOK, StatSeen, Goto, Pcs, Stat, ReuseStat, StartCleanup, files
<1>4. CASE CloseListener(s) \/ AcceptFails(s)
  BY <1>4, SilenceType DEF TypeInv, TypeOK, StatSeen, CloseListener, AcceptFails, files, local
<1>5. CASE Listen(s)
  BY <1>5 DEF TypeInv, TypeOK, StatSeen, Goto, Pcs, Listen, files, local
<1> QED
  BY <1>1, <1>2, <1>3, <1>4, <1>5 DEF PlainStep

\* Ending steps keep the types.
LEMMA EndingStepType ==
  ASSUME TypeInv, NEW s \in Sessions, EndingStep(s), Counted
  PROVE  TypeInv'
<1> USE DEF Counted
<1>1. CASE StartFails(s)
  BY <1>1, ForgetType, SilenceType DEF TypeInv, TypeOK, StartFails
<1>2. CASE CleanMeta(s) \/ RebindFails(s) \/ RefuseQuery(s)
  BY <1>2, ForgetType DEF TypeInv, TypeOK, CleanMeta, RebindFails, RefuseQuery, files
<1>3. CASE ChmodFails(s)
  BY <1>3, ForgetType, SilenceType DEF TypeInv, TypeOK, ChmodFails, files
<1>4. CASE DropSock(s)
  BY <1>4, ForgetType, SilenceType DEF TypeInv, TypeOK, DropSock, AfterDrop, files
<1>5. CASE Crash(s)
  BY <1>5, ForgetType, SilenceType DEF TypeInv, TypeOK, Crash, files
<1> QED
  BY <1>1, <1>2, <1>3, <1>4, <1>5 DEF EndingStep, StatFails, SealFails, WriteFails

\* The steps that bind, and those that hand a daemon over, keep the types.
LEMMA BindType ==
  ASSUME TypeInv, NEW s \in Sessions, Counted,
         Bind(s) \/ Rebind(s) \/ Write(s) \/ Seal(s) \/ ReplaceSock(s)
  PROVE  TypeInv'
<1> USE DEF Counted
<1>1. CASE CreateSocket(s)
  <2>1. PICK i \in Inos : sock' = i /\ fresh' = [fresh EXCEPT ![s] = i]
    BY <1>1 DEF CreateSocket, Free
  <2> QED
    BY <1>1, <2>1 DEF TypeInv, TypeOK, StatSeen, CreateSocket, Pcs
<1>2. CASE Write(s)
  <2>1. meta' \in HostDaemonMetadata
    BY <1>2 DEF TypeInv, TypeOK, StatSeen, Write, Goto, HostDaemonMetadata
  <2>2. pc' \in [Sessions -> Pcs] /\ StatSeen'
    BY <1>2 DEF TypeInv, TypeOK, StatSeen, Write, Goto, Pcs
  <2> QED
    BY <1>2, <2>1, <2>2 DEF TypeInv, TypeOK, Write
<1>3. CASE Seal(s)
  <2>1. pc' \in [Sessions -> Pcs] /\ StatSeen'
    BY <1>3 DEF TypeInv, TypeOK, StatSeen, Seal, Goto, Pcs
  <2>2. daemon' \in [Sessions -> {0} \cup Inos] /\ fresh' \in [Sessions -> {0} \cup Inos]
    BY <1>3 DEF TypeInv, TypeOK, Seal
  <2> QED
    BY <1>3, <2>1, <2>2 DEF TypeInv, TypeOK, Seal, files
<1>4. CASE ReplaceSock(s)
  BY <1>4, SilenceType
     DEF TypeInv, TypeOK, StatSeen, ReplaceSock, AfterDrop, Goto, Pcs
<1> QED
  BY <1>1, <1>2, <1>3, <1>4 DEF Bind, Rebind

\* The steps of reuse keep the types.
LEMMA ReuseType ==
  ASSUME TypeInv, NEW s \in Sessions, Counted,
         \/ ProbeAnswered(s) \/ Reuse(s) \/ ReuseChmod(s) \/ DeclineReuse(s)
         \/ Restat(s) \/ Rewrite(s) \/ Reseal(s)
  PROVE  TypeInv'
<1> USE DEF Counted
<1>1. CASE ProbeAnswered(s)
  <2>1. CASE call[s] = "down"
    BY <1>1, <2>1, ForgetType DEF ProbeAnswered, TypeInv, TypeOK, files
  <2>2. CASE call[s] # "down"
    BY <1>1, <2>2 DEF ProbeAnswered, TypeInv, TypeOK, StatSeen, Pcs, files
  <2> QED
    BY <2>1, <2>2
<1>2. CASE Reuse(s)
  BY <1>2 DEF Reuse, TypeInv, TypeOK, StatSeen, Pcs, files, local
<1>3. CASE ReuseChmod(s)
  <2>1. CASE FailFrom(s) \/ AcceptFrom(s)
    BY <1>3, <2>1, ForgetType DEF ReuseChmod, TypeInv, TypeOK, files
  <2>2. CASE pc' = [pc EXCEPT ![s] = "restat"] /\ UNCHANGED local
    BY <1>3, <2>2 DEF ReuseChmod, TypeInv, TypeOK, StatSeen, Pcs, files, local
  <2> QED
    BY <1>3, <2>1, <2>2 DEF ReuseChmod
<1>4. CASE DeclineReuse(s)
  <2>1. CASE FailFrom(s)
    BY <1>4, <2>1, ForgetType DEF DeclineReuse, TypeInv, TypeOK, files
  <2>2. CASE ~FailFrom(s)
    BY <1>4, <2>2 DEF DeclineReuse, TypeInv, TypeOK, StatSeen, Pcs, files
  <2> QED
    BY <2>1, <2>2
<1>5. CASE Restat(s)
  <2>1. CASE FailFrom(s)
    BY <1>5, <2>1, ForgetType DEF Restat, TypeInv, TypeOK, files
  <2>2. CASE sock # 0
    BY <1>5, <2>2 DEF Restat, TypeInv, TypeOK, StatSeen, Pcs, files
  <2> QED
    BY <1>5, <2>1, <2>2 DEF Restat
<1>6. CASE Rewrite(s)
  <2>1. meta' \in HostDaemonMetadata
    BY <1>6 DEF Rewrite, Goto, TypeInv, TypeOK, StatSeen, HostDaemonMetadata
  <2> QED
    BY <1>6, <2>1 DEF Rewrite, Goto, TypeInv, TypeOK, StatSeen, Pcs, local
<1>7. CASE Reseal(s)
  BY <1>7, ForgetType DEF Reseal, TypeInv, TypeOK, files
<1> QED
  BY <1>1, <1>2, <1>3, <1>4, <1>5, <1>6, <1>7

\* The user's steps keep the types.
LEMMA UserStepType ==
  ASSUME TypeInv, NEW s \in Sessions, UserStep(s), Counted
  PROVE  TypeInv'
<1> USE DEF Counted
<1>1. CASE StartCleanup(s)
  BY <1>1, PlainStepType DEF PlainStep
<1>2. CASE \E p \in Profiles : StartUp(s, p)
  BY <1>2 DEF TypeInv, TypeOK, StatSeen, Goto, Pcs, StartUp, files
<1>3. CASE EndUp(s)
  <2>1. CASE daemon[s] = 0
    BY <1>3, <2>1, ForgetType DEF EndUp, TypeInv, TypeOK, files
  <2>2. CASE daemon[s] # 0
    BY <1>3, <2>2 DEF EndUp, TypeInv, TypeOK, StatSeen, Pcs, files, local
  <2> QED
    BY <2>1, <2>2
<1> QED
  BY <1>1, <1>2, <1>3 DEF UserStep

\* Every step keeps the types.
LEMMA NextTypeInv == TypeInv /\ [Next]_vars => TypeInv'
<1> SUFFICES ASSUME TypeInv, [Next]_vars PROVE TypeInv'
  OBVIOUS
<1>1. ASSUME NEW s \in Sessions, GoesOn(s) PROVE TypeInv'
  <2>1. Counted
    BY <1>1, TrackType DEF GoesOn, Counted, TypeInv, TypeOK
  <2>2. \/ PlainStep(s) \/ EndingStep(s)
        \/ Bind(s) \/ Rebind(s) \/ Write(s) \/ Seal(s) \/ ReplaceSock(s)
        \/ ProbeAnswered(s) \/ Reuse(s) \/ ReuseChmod(s) \/ DeclineReuse(s)
        \/ Restat(s) \/ Rewrite(s) \/ Reseal(s)
    BY <1>1 DEF GoesOn, Progress, PlainStep, EndingStep
  <2> QED
    BY <2>1, <2>2, PlainStepType, EndingStepType, BindType, ReuseType
<1>2. ASSUME NEW s \in Sessions, UserStep(s), UNCHANGED faults, Track PROVE TypeInv'
  <2>1. Counted
    BY <1>2, TrackType DEF Counted, TypeInv, TypeOK
  <2> QED
    BY <1>2, <2>1, UserStepType
<1>3. ASSUME NEW s \in Sessions, Fault(s), faults < MaxFaults, faults' = faults + 1, Track
      PROVE  TypeInv'
  <2>1. Counted
    BY <1>3, TrackType, BoundsAssumption DEF Counted, TypeInv, TypeOK
  <2>2. PlainStep(s) \/ EndingStep(s)
    BY <1>3 DEF Fault, PlainStep, EndingStep
  <2> QED
    BY <2>1, <2>2, PlainStepType, EndingStepType
<1>4. CASE UNCHANGED vars
  BY <1>4 DEF vars, files, local, TypeInv, TypeOK, StatSeen
<1> QED
  BY <1>1, <1>2, <1>3, <1>4 DEF Next

\* The files, the listeners and the sessions keep their types in every
\* interleaving: metadata always names an inode, never a missing socket.
THEOREM TypeCorrect == Spec => []TypeOK
<1>1. TypeInv => TypeOK
  BY DEF TypeInv
<1> QED
  BY <1>1, InitTypeInv, NextTypeInv, PTL DEF Spec

-----------------------------------------------------------------------------
(* The end of all sessions: who has bound the socket removes it.             *)

HasSocket(s) == fresh[s] # 0 \/ daemon[s] # 0

\* What a session owns at each of its steps.
Role(s) ==
    /\ fresh[s] # 0 =>
         pc[s] \in {"listen", "chmod", "stat", "write", "seal", "replaceMeta", "replaceSock"}
    /\ daemon[s] # 0 =>
         pc[s] \in {"hold", "dropMeta", "dropSock"} \/ call[s] \in {"check", "retry"}
    /\ pc[s] \in {"replaceMeta", "replaceSock"} => call[s] \in {"check", "retry"}
    /\ call[s] = "down" => pc[s] \in {"inspect", "probe", "unlink", "cleanMeta"}
    /\ pc[s] = "cleanMeta" => call[s] = "down"
    /\ pc[s] = "idle" => call[s] = "up"

Roles == \A s \in Sessions : Role(s)

\* A socket file that exists is that of a session that still has to drop it.
Accountable == faults = 0 /\ sock # 0 => \E s \in Sessions : HasSocket(s)

\* The sessions' variables belong to one session each.
LEMMA OnlyOwnVariables ==
  ASSUME TypeInv, NEW s \in Sessions, Progress(s) \/ UserStep(s) \/ Fault(s),
         NEW t \in Sessions, t # s
  PROVE  /\ pc'[t] = pc[t] /\ call'[t] = call[t]
         /\ fresh'[t] = fresh[t] /\ daemon'[t] = daemon[t] /\ stat'[t] = stat[t]
BY DEF TypeInv, TypeOK, Progress, UserStep, Fault, Bind, CreateSocket, Listen, AddrInUse, Inspect,
    ProbeRefused, ProbeAnswered, UnlinkStale, CleanMeta, Rebind, RebindFails, Chmod,
    ChmodFails, Stat, StatFails, StartFails, Write, Seal, SealFails, DropMeta, CloseListener,
    DropSock, ReplaceSock, ReuseStat, Reuse, ReuseChmod, RefuseQuery, DeclineReuse, Restat,
    Rewrite, Reseal, Tick, Connect, StartCleanup, EndUp, StartUp, Crash, AcceptFails,
    WriteFails, Forget, FailFrom, AcceptFrom, Goto, files, local

\* Every step keeps the session's role.
LEMMA StepRole ==
  ASSUME TypeInv, NEW s \in Sessions, Role(s), Progress(s) \/ UserStep(s) \/ Fault(s)
  PROVE  Role(s)'
<1> USE DEF TypeInv, TypeOK, Role, Goto, Forget, FailFrom, AcceptFrom, files, local
<1>1. CASE Bind(s)
  BY <1>1 DEF Bind, CreateSocket
<1>2. CASE AddrInUse(s)
  BY <1>2 DEF AddrInUse
<1>3. CASE Inspect(s)
  BY <1>3 DEF Inspect, AfterStale
<1>4. CASE ProbeRefused(s)
  BY <1>4 DEF ProbeRefused
<1>5. CASE ProbeAnswered(s)
  BY <1>5 DEF ProbeAnswered
<1>6. CASE UnlinkStale(s)
  BY <1>6 DEF UnlinkStale, AfterStale
<1>7. CASE CleanMeta(s)
  BY <1>7 DEF CleanMeta
<1>8. CASE Rebind(s)
  BY <1>8 DEF Rebind, CreateSocket
<1>9. CASE RebindFails(s)
  BY <1>9 DEF RebindFails
<1>10. CASE Chmod(s)
  BY <1>10 DEF Chmod
<1>11. CASE ChmodFails(s)
  BY <1>11 DEF ChmodFails
<1>12. CASE Stat(s)
  BY <1>12 DEF Stat
<1>13. CASE StatFails(s)
  BY <1>13 DEF StatFails, StartFails
<1>14. CASE Write(s)
  BY <1>14 DEF Write
<1>15. CASE DropMeta(s)
  BY <1>15 DEF DropMeta
<1>16. CASE CloseListener(s)
  BY <1>16 DEF CloseListener
<1>17. CASE DropSock(s)
  BY <1>17 DEF DropSock, AfterDrop
<1>18. CASE ReplaceSock(s)
  BY <1>18 DEF ReplaceSock, AfterDrop
<1>19. CASE ReuseStat(s)
  BY <1>19 DEF ReuseStat
<1>20. CASE Reuse(s)
  BY <1>20 DEF Reuse
<1>21. CASE RefuseQuery(s)
  BY <1>21 DEF RefuseQuery
<1>22. CASE DeclineReuse(s)
  BY <1>22 DEF DeclineReuse
<1>23. CASE Restat(s)
  BY <1>23 DEF Restat
<1>24. CASE Rewrite(s)
  BY <1>24 DEF Rewrite
<1>25. CASE Tick(s)
  BY <1>25 DEF Tick
<1>26. CASE Connect(s)
  BY <1>26 DEF Connect
<1>27. CASE StartCleanup(s)
  BY <1>27 DEF StartCleanup
<1>28. CASE EndUp(s)
  BY <1>28 DEF EndUp
<1>29. CASE Crash(s)
  BY <1>29 DEF Crash
<1>30. CASE AcceptFails(s)
  BY <1>30 DEF AcceptFails
<1>31. CASE WriteFails(s)
  BY <1>31 DEF WriteFails, StartFails
<1>32. CASE \E p \in Profiles : StartUp(s, p)
  BY <1>32 DEF StartUp
<1>33. CASE Listen(s)
  BY <1>33 DEF Listen
<1>34. CASE Seal(s)
  BY <1>34 DEF Seal
<1>35. CASE SealFails(s)
  BY <1>35 DEF SealFails, StartFails
<1>36. CASE ReuseChmod(s)
  BY <1>36 DEF ReuseChmod
<1>37. CASE Reseal(s)
  BY <1>37 DEF Reseal
<1> QED
  BY <1>1, <1>2, <1>3, <1>4, <1>5, <1>6, <1>7, <1>8, <1>9, <1>10, <1>11, <1>12, <1>13,
     <1>14, <1>15, <1>16, <1>17, <1>18, <1>19, <1>20, <1>21, <1>22, <1>23, <1>24, <1>25,
     <1>26, <1>27, <1>28, <1>29, <1>30, <1>31, <1>32, <1>33, <1>34, <1>35, <1>36, <1>37
  DEF Progress, UserStep, Fault

\* Who has no socket any more has removed the file.
LEMMA StepSocket ==
  ASSUME TypeInv, NEW s \in Sessions, Role(s), Progress(s) \/ UserStep(s)
  PROVE  sock' = 0 \/ HasSocket(s)' \/ (sock # 0 /\ ~HasSocket(s))
<1> USE InosAssumption
    DEF TypeInv, TypeOK, Role, HasSocket, Goto, Forget, FailFrom, AcceptFrom, files, local
<1>1. CASE Bind(s)
  BY <1>1 DEF Bind, CreateSocket, Free
<1>2. CASE AddrInUse(s)
  BY <1>2 DEF AddrInUse
<1>3. CASE Inspect(s)
  BY <1>3 DEF Inspect, AfterStale
<1>4. CASE ProbeRefused(s)
  BY <1>4 DEF ProbeRefused
<1>5. CASE ProbeAnswered(s)
  BY <1>5 DEF ProbeAnswered
<1>6. CASE UnlinkStale(s)
  BY <1>6 DEF UnlinkStale, AfterStale
<1>7. CASE CleanMeta(s)
  BY <1>7 DEF CleanMeta
<1>8. CASE Rebind(s)
  BY <1>8 DEF Rebind, CreateSocket, Free
<1>9. CASE RebindFails(s)
  BY <1>9 DEF RebindFails
<1>10. CASE Chmod(s)
  BY <1>10 DEF Chmod
<1>11. CASE sock = 0 /\ ChmodFails(s)
  BY <1>11 DEF ChmodFails
<1>12. CASE Stat(s)
  BY <1>12 DEF Stat
<1>13. CASE StatFails(s)
  BY <1>13 DEF StatFails, StartFails
<1>14. CASE Write(s)
  BY <1>14 DEF Write
<1>15. CASE DropMeta(s)
  BY <1>15 DEF DropMeta
<1>16. CASE CloseListener(s)
  BY <1>16 DEF CloseListener
<1>17. CASE DropSock(s)
  BY <1>17 DEF DropSock, AfterDrop
<1>18. CASE ReplaceSock(s)
  BY <1>18 DEF ReplaceSock, AfterDrop
<1>19. CASE ReuseStat(s)
  BY <1>19 DEF ReuseStat
<1>20. CASE Reuse(s)
  BY <1>20 DEF Reuse
<1>21. CASE RefuseQuery(s)
  BY <1>21 DEF RefuseQuery
<1>22. CASE DeclineReuse(s)
  BY <1>22 DEF DeclineReuse
<1>23. CASE Restat(s)
  BY <1>23 DEF Restat
<1>24. CASE Rewrite(s)
  BY <1>24 DEF Rewrite
<1>25. CASE Tick(s)
  BY <1>25 DEF Tick
<1>26. CASE Connect(s)
  BY <1>26 DEF Connect
<1>27. CASE StartCleanup(s)
  BY <1>27 DEF StartCleanup
<1>28. CASE EndUp(s)
  BY <1>28 DEF EndUp
<1>29. CASE \E p \in Profiles : StartUp(s, p)
  BY <1>29 DEF StartUp
<1>30. CASE Listen(s)
  BY <1>30 DEF Listen
<1>31. CASE Seal(s)
  BY <1>31 DEF Seal
<1>32. CASE SealFails(s)
  BY <1>32 DEF SealFails, StartFails
<1>33. CASE ReuseChmod(s)
  BY <1>33 DEF ReuseChmod
<1>34. CASE Reseal(s)
  BY <1>34 DEF Reseal
<1> QED
  BY <1>1, <1>2, <1>3, <1>4, <1>5, <1>6, <1>7, <1>8, <1>9, <1>10, <1>11, <1>12, <1>13,
     <1>14, <1>15, <1>16, <1>17, <1>18, <1>19, <1>20, <1>21, <1>22, <1>23, <1>24, <1>25,
     <1>26, <1>27, <1>28, <1>29, <1>30, <1>31, <1>32, <1>33, <1>34
  DEF Progress, UserStep

\* At first nobody has a socket, and there is none.
LEMMA InitAccountable == Init => Roles /\ Accountable
BY DEF Init, Roles, Role, Accountable

\* Every step keeps it so.
LEMMA NextAccountable ==
  TypeInv /\ Roles /\ Accountable /\ [Next]_vars => Roles' /\ Accountable'
<1> SUFFICES ASSUME TypeInv, Roles, Accountable, [Next]_vars PROVE Roles' /\ Accountable'
  OBVIOUS
<1>1. ASSUME NEW s \in Sessions, Progress(s) \/ UserStep(s) \/ Fault(s) PROVE Roles'
  <2> SUFFICES ASSUME NEW t \in Sessions PROVE Role(t)'
    BY DEF Roles
  <2>1. CASE t = s
    BY <1>1, <2>1, StepRole DEF Roles
  <2>2. CASE t # s
    BY <1>1, <2>2, OnlyOwnVariables DEF Roles, Role
  <2> QED
    BY <2>1, <2>2
<1>2. ASSUME NEW s \in Sessions, Progress(s) \/ UserStep(s), UNCHANGED faults
      PROVE  Accountable'
  <2> SUFFICES ASSUME faults = 0, sock' # 0 PROVE \E t \in Sessions : HasSocket(t)'
    BY <1>2 DEF Accountable
  <2>1. CASE HasSocket(s)'
    BY <2>1
  <2>2. CASE sock # 0 /\ ~HasSocket(s)
    <3>1. PICK t \in Sessions : HasSocket(t)
      BY <2>2 DEF Accountable
    <3>2. t # s
      BY <2>2, <3>1
    <3> QED
      BY <1>2, <3>1, <3>2, OnlyOwnVariables DEF HasSocket
  <2> QED
    BY <1>2, <2>1, <2>2, StepSocket DEF Roles
<1>3. ASSUME faults' = faults + 1 PROVE Accountable'
  <2>1. faults' # 0
    BY <1>3, BoundsAssumption DEF TypeInv, TypeOK
  <2> QED
    BY <2>1 DEF Accountable
<1>4. CASE UNCHANGED vars
  BY <1>4 DEF Roles, Role, Accountable, HasSocket, vars, files, local
<1> QED
  BY <1>1, <1>2, <1>3, <1>4 DEF Next, GoesOn

\* However the sessions overlap and in whatever order they end: when all have
\* ended and none has crashed there is no socket file left.
THEOREM NoSocketIsLeft == Spec => []NoSocketLeft
<1>1. ASSUME Roles, Accountable PROVE NoSocketLeft
  <2> SUFFICES ASSUME faults = 0, \A s \in Sessions : pc[s] = "idle", sock # 0 PROVE FALSE
    BY DEF NoSocketLeft
  <2>1. PICK s \in Sessions : HasSocket(s)
    BY <1>1 DEF Accountable
  <2> QED
    BY <1>1, <2>1 DEF Roles, Role, HasSocket
<1>2. TypeInv /\ Roles /\ Accountable /\ [Next]_vars => (Roles /\ Accountable)'
  BY NextAccountable
<1> QED
  BY <1>1, <1>2, InitTypeInv, NextTypeInv, InitAccountable, PTL DEF Spec

-----------------------------------------------------------------------------
(* Who begins while a daemon answers: its probe cannot be refused as long as  *)
(* that daemon does, so it neither unlinks nor binds, and it writes metadata   *)
(* of no other socket.                                                        *)

LookingPcs == {"bind", "inspect", "probe", "reuseStat", "reuseRead", "reuseChmod", "regroup",
               "restat", "rewrite", "reseal", "connect"}

Newcomer(s) ==
    met[s] # 0 => /\ met[s] = Answering
                  /\ pc[s] \in LookingPcs
                  /\ pc[s] = "rewrite" => stat[s] = met[s]

Newcomers == \A s \in Sessions : Newcomer(s)

Spared(s) == sock' = sock /\ (meta' = meta \/ (meta' # NoMeta /\ meta'.ino = met[s]))

\* A step of a newcomer spares the daemon and leaves it a newcomer, or ends its
\* operation.
LEMMA NewcomerMoves ==
  ASSUME TypeInv, NEW s \in Sessions, Newcomer(s), met[s] # 0,
         Progress(s) \/ UserStep(s) \/ Fault(s)
  PROVE  /\ Spared(s)
         /\ pc'[s] \in LookingPcs \cup Ended
         /\ pc'[s] = "rewrite" => stat'[s] = met[s]
<1>1. sock # 0 /\ InUse(sock) /\ met[s] = sock /\ pc[s] \in LookingPcs
  BY DEF Newcomer, Answering, InUse, Listening
<1>2. CASE Rewrite(s)
  <2>1. meta' \in HostDaemonMetadata /\ meta'.ino = met[s]
    BY <1>1, <1>2 DEF Rewrite, Goto, Newcomer, TypeInv, TypeOK, StatSeen, HostDaemonMetadata
  <2> QED
    BY <1>1, <1>2, <2>1, NoMetaAssumption DEF Rewrite, Goto, Spared, LookingPcs, TypeInv, TypeOK
<1> USE DEF TypeInv, TypeOK, Newcomer, Goto, Forget, FailFrom, AcceptFrom, files, local,
            LookingPcs, Ended, Spared
<1>3. CASE AddrInUse(s) \/ Inspect(s) \/ Connect(s)
  BY <1>1, <1>3 DEF AddrInUse, Inspect, Connect
<1>4. CASE ProbeAnswered(s)
  BY <1>1, <1>4 DEF ProbeAnswered
<1>5. CASE ReuseStat(s) \/ Reuse(s) \/ RefuseQuery(s)
  BY <1>1, <1>5 DEF ReuseStat, Reuse, RefuseQuery
<1>6. CASE ReuseChmod(s)
  BY <1>1, <1>6 DEF ReuseChmod
<1>7. CASE DeclineReuse(s)
  BY <1>1, <1>7 DEF DeclineReuse
<1>8. CASE Restat(s) \/ Reseal(s)
  BY <1>1, <1>8 DEF Restat, Reseal
<1>9. CASE EndUp(s)
  BY <1>1, <1>9 DEF EndUp
<1>10. CASE Crash(s)
  BY <1>1, <1>10 DEF Crash
<1>11. CASE AcceptFails(s)
  BY <1>1, <1>11 DEF AcceptFails
<1>12. \/ Rewrite(s) \/ AddrInUse(s) \/ Inspect(s) \/ Connect(s) \/ ProbeAnswered(s)
       \/ ReuseStat(s) \/ Reuse(s) \/ RefuseQuery(s) \/ ReuseChmod(s) \/ DeclineReuse(s)
       \/ Restat(s) \/ Reseal(s) \/ EndUp(s) \/ Crash(s) \/ AcceptFails(s)
  BY <1>1 DEF Progress, UserStep, Fault, Bind, CreateSocket, Listen, ProbeRefused, UnlinkStale,
       CleanMeta, Rebind, RebindFails, Chmod, ChmodFails, Stat, StatFails, Write, Seal, SealFails,
       DropMeta, CloseListener, DropSock, ReplaceSock, Tick, StartCleanup, StartUp, WriteFails
<1> QED
  BY <1>2, <1>3, <1>4, <1>5, <1>6, <1>7, <1>8, <1>9, <1>10, <1>11, <1>12

\* The step with which an operation begins changes nothing that is shared.
LEMMA BeginningStep ==
  ASSUME TypeInv, NEW s \in Sessions, Begins(s), Progress(s) \/ UserStep(s) \/ Fault(s)
  PROVE  UNCHANGED <<files, listen>> /\ pc'[s] \in LookingPcs \ {"rewrite"}
<1> USE DEF TypeInv, TypeOK, Begins, Goto, LookingPcs
<1>1. CASE Tick(s)
  BY <1>1 DEF Tick
<1>2. CASE StartCleanup(s)
  BY <1>2 DEF StartCleanup
<1>3. CASE \E p \in Profiles : StartUp(s, p)
  BY <1>3 DEF StartUp
<1>4. ~EndUp(s) /\ ~Crash(s) /\ ~AcceptFails(s)
  BY DEF EndUp, Crash, AcceptFails, Forget, local
<1>5. Tick(s) \/ StartCleanup(s) \/ \E p \in Profiles : StartUp(s, p)
  BY <1>4 DEF Progress, UserStep, Fault, Bind, CreateSocket, Listen, AddrInUse, Inspect,
       ProbeRefused, ProbeAnswered, UnlinkStale, CleanMeta, Rebind, RebindFails, Chmod,
       ChmodFails, Stat, StatFails, Write, Seal, SealFails, DropMeta, CloseListener, DropSock,
       ReplaceSock, ReuseStat, Reuse, ReuseChmod, RefuseQuery, DeclineReuse, Restat, Rewrite,
       Reseal, Connect, WriteFails
<1> QED
  BY <1>1, <1>2, <1>3, <1>5

\* Every step of any session keeps newcomers newcomers, and they spare the daemon.
LEMMA StepNewcomers ==
  ASSUME TypeInv, Newcomers, NEW s \in Sessions,
         Progress(s) \/ UserStep(s) \/ Fault(s), Track
  PROVE  /\ Newcomers'
         /\ \A t \in Sessions : met[t] # 0 /\ pc'[t] # pc[t] => Spared(t)
<1>1. ASSUME NEW t \in Sessions, met[t] # 0, pc'[t] # pc[t] PROVE Spared(t)
  <2>1. t = s
    BY <1>1, OnlyOwnVariables
  <2> QED
    BY <1>1, <2>1, NewcomerMoves DEF Newcomers
<1>2. ASSUME NEW t \in Sessions, met'[t] # 0 PROVE Newcomer(t)'
  <2>1. met'[t] = IF Begins(t) THEN Answering
                  ELSE IF pc'[t] \notin Ended /\ Answering' = met[t] THEN met[t] ELSE 0
    BY DEF Track
  <2>2. CASE Begins(t)
    <3>1. t = s
      BY <2>2, OnlyOwnVariables DEF Begins
    <3>2. UNCHANGED <<files, listen>> /\ pc'[t] \in LookingPcs \ {"rewrite"}
      BY <2>2, <3>1, BeginningStep
    <3>3. Answering' = Answering
      BY <3>2 DEF Answering, Listening, files
    <3> QED
      BY <2>1, <2>2, <3>2, <3>3 DEF Newcomer
  <2>3. CASE ~Begins(t)
    <3>1. met'[t] = met[t] /\ met[t] # 0 /\ Answering' = met'[t] /\ pc'[t] \notin Ended
      BY <1>2, <2>1, <2>3
    <3>2. CASE t = s
      BY <3>1, <3>2, NewcomerMoves DEF Newcomers, Newcomer
    <3>3. CASE t # s
      BY <3>1, <3>3, OnlyOwnVariables DEF Newcomers, Newcomer
    <3> QED
      BY <3>2, <3>3
  <2> QED
    BY <2>2, <2>3
<1> QED
  BY <1>1, <1>2 DEF Newcomers, Newcomer

\* A start, a check or a cleanup that begins while a daemon answers never takes
\* the socket or the metadata from it: for any number of sessions, with sockets
\* and metadata that crashes left, and whatever others do meanwhile.
THEOREM NewcomersAlwaysSpare == Spec => NewcomersSpare
<1>1. Init => Newcomers
  BY DEF Init, Newcomers, Newcomer
<1>2. TypeInv /\ Newcomers /\ [Next]_vars
      => /\ Newcomers'
         /\ [\A s \in Sessions : met[s] # 0 /\ pc'[s] # pc[s] =>
                /\ sock' = sock
                /\ meta' = meta \/ (meta' # NoMeta /\ meta'.ino = met[s])]_vars
  <2> SUFFICES ASSUME TypeInv, Newcomers, [Next]_vars
               PROVE  /\ Newcomers'
                      /\ \/ UNCHANGED vars
                         \/ \A s \in Sessions : met[s] # 0 /\ pc'[s] # pc[s] => Spared(s)
    BY DEF Spared
  <2>1. CASE Next
    BY <2>1, StepNewcomers DEF Next, GoesOn
  <2>2. CASE UNCHANGED vars
    BY <2>2 DEF Newcomers, Newcomer, Answering, Listening, vars, files, local
  <2> QED
    BY <2>1, <2>2
<1> QED
  BY <1>1, <1>2, InitTypeInv, NextTypeInv, PTL DEF Spec, NewcomersSpare
=============================================================================
