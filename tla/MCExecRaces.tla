----------------------------- MODULE MCExecRaces ----------------------------
(* A job of two steps.  Twice: two programs start and end the same job.      *)
(* Branches: the two branches of a workflow, of which the first also ends    *)
(* the job.                                                                  *)
EXTENDS ExecRaces

TwoSubs == {11, 12}
TwoClients == {1, 2}
TwiceServes == [c \in TwoClients |-> {10}]
BranchServes == [c \in TwoClients |-> IF c = 1 THEN {10, 11} ELSE {12}]

=============================================================================
