---------------------------- MODULE MCBackground -----------------------------
(***************************************************************************)
(* Small instances of the services that work in the background.            *)
(***************************************************************************)
EXTENDS Background

CONSTANTS r1, r2, t1, t2, k1, k2, i1, i2, b1

\* Two runs and two tasks of one group, and two groups of duplicates.
MCRuns == {r1, r2}
MCTasks == {t1, t2}
MCKeyOf == [r \in MCRuns \cup MCTasks |-> k1]
MCSingletonOf == [r \in MCRuns \cup MCTasks |-> IF r \in {r1, t1} THEN k1 ELSE k2]

\* The one that waits for its last loop ticks at once.
MCRunImmediately == [h \in {"restarts", "patient"} |-> h = "patient"]
=============================================================================
