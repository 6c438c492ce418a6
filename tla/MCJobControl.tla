---------------------------- MODULE MCJobControl ----------------------------
(* Catalogues for TLC: job 10 is fed by nothing, job 20 by job 10.  As in   *)
(* the test FullJobTest, the steps of job 20 consume what job 10 produces.  *)
EXTENDS JobControl

ChainJobs == {10, 20}
ChainSubs == {11, 21, 22}
ChainParent == [s \in ChainSubs |-> IF s < 20 THEN 10 ELSE 20]
ChainEnqueuing == [s \in ChainSubs |-> IF s < 20 THEN NoProcess ELSE 10]
ChainNext == [s \in ChainSubs |-> CASE s = 11 -> {10} [] s = 21 -> {22} [] s = 22 -> {20}]

ChainRuns == [p \in ChainJobs \union ChainSubs |-> IF p = 22 THEN 1 ELSE 2]

\* A source job of two steps.
PairJobs == {10}
PairSubs == {11, 12}
PairParent == [s \in PairSubs |-> 10]
PairEnqueuing == [s \in PairSubs |-> NoProcess]
TwoRuns == [p \in PairJobs \union PairSubs |-> 2]
PairNext == [s \in PairSubs |-> IF s = 11 THEN {12} ELSE {10}]

=============================================================================
