---------------------------- MODULE MCJobWorkflow ---------------------------
(* Job 10 feeds job 20.  Its steps run one after the other (Chain), or two   *)
(* in parallel before a third (Fork).                                       *)
EXTENDS JobWorkflow

WfJobs == {10, 20}
WfParent(subs) == [s \in subs |-> IF s < 20 THEN 10 ELSE 20]
WfEnqueuing(subs) == [s \in subs |-> IF s < 20 THEN NoProcess ELSE 10]

ChainSubs == {11, 12, 21}
ChainParent == WfParent(ChainSubs)
ChainEnqueuing == WfEnqueuing(ChainSubs)
ChainNext == [s \in ChainSubs |-> CASE s = 11 -> {12} [] s = 12 -> {10} [] s = 21 -> {20}]
ChainRuns == [p \in WfJobs \union ChainSubs |-> 2]

ForkJob == {10}
ForkSubs == {11, 12, 13}
ForkParent == WfParent(ForkSubs)
ForkEnqueuing == WfEnqueuing(ForkSubs)
ForkNext == [s \in ForkSubs |-> IF s = 13 THEN {10} ELSE {13}]
ForkRuns == [p \in ForkJob \union ForkSubs |-> 2]

JoinSubs == ForkSubs \union {21}
JoinParent == WfParent(JoinSubs)
JoinEnqueuing == WfEnqueuing(JoinSubs)
JoinNext == [s \in JoinSubs |-> CASE s = 21 -> {20} [] s = 13 -> {10} [] OTHER -> {13}]
JoinRuns == [p \in WfJobs \union JoinSubs |-> 2]

=============================================================================
