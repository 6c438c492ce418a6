---------------------------- MODULE MCStreamRun -----------------------------
(* Two executions and two calls of killProcess, which are interchangeable.   *)
EXTENDS StreamRun, TLC

\* Calls of killProcess differ in nothing but their names.
Symmetry == Permutations(Killers)

=============================================================================
