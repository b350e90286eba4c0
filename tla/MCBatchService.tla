--------------------------- MODULE MCBatchService ---------------------------
EXTENDS BatchService, TLC

\* Two stages; the best of the first goes on.
MCKeepTopN  == <<1, 0>>
MCScore     == [j \in Jobs |-> IF j = 2 THEN 7 ELSE 5]
MCPromote   == {1}
MCNoPromote == {}

\* What may go wrong in one behaviour: a crash and any one other trouble, or a
\* crash, an undecodable row and a failed read. A batch with several items in
\* its first stage meets a crash only, and one request at a time after it.
Trouble ==
    LET total == crashes + faults + poisons + badrefs + advances IN
    /\ total <= 1 + crashes \/ badrefs + advances = 0
    /\ (Exists /\ Cardinality(Positions(batch, 0)) > 1) =>
          /\ total = crashes
          /\ crashes = 0 \/ \E t \in Procs : pc[t] = "idle"

MCSymmetry == Permutations(Procs)
=============================================================================
