--------------------------- MODULE MCRuntimeLeases ---------------------------
(* Instances of RuntimeLeases for TLC. *)
EXTENDS RuntimeLeases, TLC

CONSTANTS t1, t2, t3, m1, m2, shared

OneBucket == [m \in Models |-> shared]
BudgetOfOne == [b \in Buckets |-> 1]

ThreadSymmetry == Permutations(Threads)

\* The state of an entry that nothing refers to is overwritten before it is read,
\* by the program and by the invariants of the run.
StateThatMatters ==
    [e \in Entries |-> IF Unreferenced(e) THEN "RETIRING" ELSE state[e]]
Relevant ==
    <<slot, lru, StateThatMatters, leases, runtime, handed \cap {e \in Entries : ~Unreferenced(e)},
      locks, calling, pc, holds, victims, after>>
=============================================================================
