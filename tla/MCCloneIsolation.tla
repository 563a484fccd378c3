-------------------------- MODULE MCCloneIsolation --------------------------
EXTENDS CloneIsolation
CONSTANTS c1
\* A pool of four slots of two addresses; one network wants a slot of it, the
\* other a subnet elsewhere.
ThePool == [first |-> 8, last |-> 15]
Wanted == <<[first |-> 10, last |-> 11], [first |-> 20, last |-> 21]>>
\* Both networks try the third slot first.
Hashes == [x \in Clones \X Networks |-> IF x[2] = 1 THEN 2 ELSE 6]
\* Half a slot, the upper half of the pool, and the pool with its surroundings.
Elsewhere == {[first |-> 11, last |-> 11], [first |-> 12, last |-> 15],
              [first |-> 0, last |-> 31]}
=============================================================================
