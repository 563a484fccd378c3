--------------------------- MODULE CreationLedger ---------------------------
(***************************************************************************)
(* What decune promises about the creation stages of the workspace's        *)
(* container: their units (command, after hook, command, ...) run in order, *)
(* at least once, and not again once they are recorded as done.             *)
(***************************************************************************)
EXTENDS Integers

CONSTANTS NumUnits, MaxContainers

VARIABLES box,       \* the container that exists, 0 if none
          done,      \* units that succeeded in it
          recorded   \* units recorded as done in it

vars == <<box, done, recorded>>

Unit == 1 .. NumUnits

Init == box = 0 /\ done = {} /\ recorded = {}

\* A new container, or none: its ledger is empty.
Renew ==
    /\ box' \in (0 .. MaxContainers) \ {box}
    /\ done' = {} /\ recorded' = {}

\* The first unit that is not recorded runs, for the first time or again
\* because the process died before it recorded it.
Run(u) ==
    /\ box # 0
    /\ u \notin recorded /\ \A v \in Unit : v < u => v \in recorded
    /\ done' = done \cup {u}
    /\ UNCHANGED <<box, recorded>>

Record(u) ==
    /\ u \in done \ recorded
    /\ recorded' = recorded \cup {u}
    /\ UNCHANGED <<box, done>>

Next == Renew \/ \E u \in Unit : Run(u) \/ Record(u)

Spec == Init /\ [][Next]_vars
=============================================================================
