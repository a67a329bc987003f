------------------------------ MODULE MCCoreDaemon ------------------------------
(* Two calls of Start on the launcher of the TUI, and one run of the daemon. *)
EXTENDS CoreDaemon

CONSTANTS a1, a2, b1, tui, run1

MCAttempts  == {a1, a2, b1}
MCRuns      == {run1}
MCLaunchers == {tui} \cup MCRuns
MCStartOf   == [d \in MCRuns |-> b1]
MCOf        == [a \in MCAttempts |-> IF a = b1 THEN run1 ELSE tui]

\* Without the daemon: two calls of Start on one launcher.
MCTwo          == {a1, a2}
MCTwoLaunchers == {tui}
MCTwoOf        == [a \in MCTwo |-> tui]
MCNone         == {}
MCNoStarts     == [d \in MCNone |-> a1]
=================================================================================
