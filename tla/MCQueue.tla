------------------------------ MODULE MCQueue ------------------------------
(***************************************************************************)
(* Instances of Queue for TLC.  Each configuration names its calls; the    *)
(* functions below say what each call pushes and where.                    *)
(***************************************************************************)
EXTENDS Queue, TLC

CONSTANTS a1, a2, a3, b1, c1, kA, kB, kC, high, other

\* The calls of a share one key and one lane.
MCKey == [p \in Pushes |-> IF p \in {a1, a2, a3} THEN kA ELSE kB]

\* c1 has a key of its own.
ThreeKeys == [p \in Pushes |->
    IF p \in {a1, a2, a3} THEN kA ELSE IF p = c1 THEN kC ELSE kB]

OneLane == [p \in Pushes |-> high]
OnePermit == [l \in Lanes |-> 1]
TwoPermits == [l \in Lanes |-> 2]
NoParent == [p \in Pushes |-> NoJob]

\* c1 has a lane of its own; b1 shares that of the calls of a.
TwoLanes == [p \in Pushes |-> IF p = c1 THEN other ELSE high]
SparePermit == [l \in Lanes |-> IF l = high THEN 2 ELSE 1]

\* The body of a1 pushes b1.
Nested == [p \in Pushes |-> IF p = b1 THEN a1 ELSE NoJob]

\* The calls of a are interchangeable where none of them is singled out.
Interchangeable == Permutations({a1, a2, a3} \cap Pushes)
=============================================================================
