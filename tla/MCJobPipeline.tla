---------------------------- MODULE MCJobPipeline ----------------------------
(* Instances of JobPipeline for TLC. *)
EXTENDS JobPipeline, TLC

CONSTANTS j1, w1, w2, c1, default

\* One lane with every worker on it, the configuration the API starts.
OneLaneOf == [j \in Jobs |-> default]
OneLaneWorkers == [w \in Workers |-> default]

JobSymmetry == Permutations(Jobs)
WorkerSymmetry == Permutations(Workers)
Symmetry == JobSymmetry \cup WorkerSymmetry

\* Storage fails or the process crashes, not both: a job that a failed read
\* hides from startup recovery waits for the next start.
OneKindOfTrouble == faults = 0 \/ crashes = 0

LiveSpec == Init /\ [][Next /\ OneKindOfTrouble']_vars /\ Fairness
=============================================================================
