-------------------------- MODULE MCServiceMemory --------------------------
(***************************************************************************)
(* Values of the constants of ServiceMemory for model checking.            *)
(***************************************************************************)
EXTENDS ServiceMemory

\* Two closes of each of two patterns can leave duplicates of both, which the
\* fifth merges in one flush.
MCPatternOf == [i \in 1..Closes |-> IF i \in {3, 4} THEN "restarts" ELSE "rollbacks"]
=============================================================================
