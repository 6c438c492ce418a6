---------------------------- MODULE JobWorkflow -----------------------------
(***************************************************************************)
(* The workflow that drives a job.  An engine outside the repository (Oozie)*)
(* runs a graph of nodes: InitJob, then for each step InitStep, the action *)
(* and HaltStep, then HaltJob; TermStep and TermJob are where failures     *)
(* lead.  Each node but the action is a process of its own that makes one  *)
(* metadata call of JobControl.  The node graph is the one workflow.md     *)
(* describes; a step follows the steps that name it in NEXT_PROCESS_ID.    *)
(*                                                                         *)
(* A node whose call is refused fails.  With Unreliable, a node may also   *)
(* fail before its call has taken effect, or after: the main program of a  *)
(* node parses and stores what the call returned once it has committed.    *)
(***************************************************************************)
EXTENDS JobControl

CONSTANT
  Unreliable    \* do nodes fail for reasons of their own?

ASSUME WorkflowAssumption == Unreliable \in BOOLEAN

VARIABLES
  wf,    \* for each job, its latest workflow: "none", "steps" (running),
         \* "termjob" (about to be failed), "succeeded" or "killed"
  node   \* for each step, the node its branch has reached in that workflow,
         \* or "done" or "failed"

wfVars == <<wf, node>>
allVars == <<execs, batches, bcq, archive, lastId, recoverAt, wf, node>>

-----------------------------------------------------------------------------
(***************************************************************************)
(* The graph.  A step several others lead to waits for all of them, and    *)
(* those are halted only when the actions of all are over (the join comes  *)
(* before their HaltStep nodes).                                           *)
(***************************************************************************)
Follows(s) == {t \in SubsOf(ParentOf[s]) : s \in NextProcesses[t]}
MayInit(s) == \A t \in Follows(s) : node[t] = "done"
Joined(s) == {t \in SubsOf(ParentOf[s]) : NextProcesses[t] \intersect NextProcesses[s] # {}}
MayHalt(s) == \A t \in Joined(s) : node[t] \in {"haltstep", "done"}

Live(j) == wf[j] \in {"steps", "termjob"}

\* The outcomes of a node that makes the call A, which is refused unless accepted.
Succeeds(A, next) == A /\ next
Fails(accepted, A, next) ==
  /\ next
  /\ \/ (Unreliable \/ ~accepted) /\ UNCHANGED vars
     \/ Unreliable /\ A

Goto(j, state) == wf' = [wf EXCEPT ![j] = state] /\ UNCHANGED node
Reach(s, state) == node' = [node EXCEPT ![s] = state] /\ UNCHANGED wf
Abandon(s) ==
  /\ node' = [node EXCEPT ![s] = "failed"]
  /\ wf' = [wf EXCEPT ![ParentOf[s]] = "termjob"]

-----------------------------------------------------------------------------
(***************************************************************************)
(* The nodes.  A rerun goes through all steps again.                       *)
(***************************************************************************)
Begin(j) ==
  /\ wf' = [wf EXCEPT ![j] = "steps"]
  /\ node' = [s \in Subs |-> IF ParentOf[s] = j THEN "initstep" ELSE node[s]]

InitJobNode(j) ==
  /\ ~Live(j)
  /\ Len(execs[j]) < MaxRuns[j]
  /\ \E maxBatch \in MaxBatchArgs :
       \/ Succeeds(InitJob(j, maxBatch), Begin(j))
       \/ Fails(AcceptsInitJob(j, maxBatch), InitJob(j, maxBatch), Goto(j, "killed"))

InitStepNode(s) ==
  /\ Live(ParentOf[s]) /\ node[s] = "initstep" /\ MayInit(s)
  /\ \/ Succeeds(InitStep(s), Reach(s, "action"))
     \/ Fails(AcceptsInitStep(s), InitStep(s), Abandon(s))

ActionNode(s) ==
  /\ Live(ParentOf[s]) /\ node[s] = "action"
  /\ Reach(s, "haltstep") \/ Reach(s, "termstep")
  /\ UNCHANGED vars

HaltStepNode_Lenient(s) ==   \* mutant: the program ends well whatever happened
  /\ Live(ParentOf[s]) /\ node[s] = "haltstep" /\ MayHalt(s)
  /\ \/ Succeeds(HaltStep(s), Reach(s, "done"))
     \/ Fails(AcceptsEndStep(s), HaltStep(s), Reach(s, "done"))
HaltStepNode(s) ==
  /\ Live(ParentOf[s]) /\ node[s] = "haltstep" /\ MayHalt(s)
  /\ \/ Succeeds(HaltStep(s), Reach(s, "done"))
     \/ Fails(AcceptsEndStep(s), HaltStep(s), Reach(s, "termstep"))

TermStepNode_NoCall(s) ==   \* mutant: the program does not call termStep
  /\ Live(ParentOf[s]) /\ node[s] = "termstep"
  /\ Abandon(s)
  /\ UNCHANGED vars
TermStepNode(s) ==
  /\ Live(ParentOf[s]) /\ node[s] = "termstep"
  /\ \/ Succeeds(TermStep(s), Abandon(s))
     \/ Fails(AcceptsEndStep(s), TermStep(s), Abandon(s))

HaltJobNode_AnyStep(j) ==   \* mutant: the last join left out
  /\ wf[j] = "steps" /\ \E s \in SubsOf(j) : node[s] = "done"
  /\ \/ Succeeds(HaltJob(j), Goto(j, "succeeded"))
     \/ Fails(AcceptsHaltJob(j), HaltJob(j), Goto(j, "termjob"))
HaltJobNode(j) ==
  /\ wf[j] = "steps" /\ \A s \in SubsOf(j) : node[s] = "done"
  /\ \/ Succeeds(HaltJob(j), Goto(j, "succeeded"))
     \/ Fails(AcceptsHaltJob(j), HaltJob(j), Goto(j, "termjob"))

\* Success or failure, TermJob leads to the kill node, which ends the other
\* branches wherever they are.
TermJobNode_NoCall(j) ==   \* mutant: the program does not call termJob
  /\ wf[j] = "termjob" /\ Goto(j, "killed") /\ UNCHANGED vars
TermJobNode(j) ==
  /\ wf[j] = "termjob"
  /\ \/ Succeeds(TermJob(j), Goto(j, "killed"))
     \/ Fails(AcceptsTermJob(j), TermJob(j), Goto(j, "killed"))

File(j) == BatchEnqueue(j) /\ UNCHANGED wfVars

-----------------------------------------------------------------------------
WorkflowInit ==
  /\ Init
  /\ wf = [j \in Jobs |-> "none"]
  /\ node = [s \in Subs |-> "initstep"]

Engine(j) ==
  \/ HaltJobNode(j) \/ TermJobNode(j)
  \/ \E s \in SubsOf(j) :
       InitStepNode(s) \/ ActionNode(s) \/ HaltStepNode(s) \/ TermStepNode(s)
WorkflowNext ==
  \/ \E j \in Jobs : InitJobNode(j) \/ Engine(j) \/ File(j)

\* The engine goes on with a workflow it has started, and actions end.  It
\* need not start one.
WorkflowSpec ==
  WorkflowInit /\ [][WorkflowNext]_allVars /\ \A j \in Jobs : WF_allVars(Engine(j))

-----------------------------------------------------------------------------
(***************************************************************************)
(* What the workflow adds to the guarantees of the calls.                  *)
(***************************************************************************)
Succeeded(s, run) == \E i \in DOMAIN execs[s] : execs[s][i] = [state |-> "success", during |-> run]

\* A job is completed only by a run in which every step succeeded, although
\* haltJob itself asks for less.
EveryStepRan ==
  \A j \in Jobs : LastState(j) = "success" =>
    \A s \in SubsOf(j) : Succeeded(s, Len(execs[j]))

\* A step starts after every step before it has succeeded in the same run,
\* whatever branches failed or were halted in between.
StepOrder ==
  \A s \in Subs : \A i \in DOMAIN execs[s] : \A t \in Follows(s) :
    Succeeded(t, execs[s][i].during)

\* A completed run leaves no claimed row behind for the next run to mistake
\* for the rest of a failed one.
NothingLeftClaimed ==
  \A j \in Jobs : LastState(j) = "success" => \A r \in JobRows(j, bcq) : ~Claimed(r)

\* A batch some run produced is handed to each downstream step once, however
\* often the run failed and was repeated.
DeliveredOnce ==
  \A r, x \in bcq \union archive :
    r.proc = x.proc /\ r.src = x.src /\ r.src \in DOMAIN batches /\ r.id # x.id
      => batches[r.src] = NoRun

\* What a step is given to consume was produced by a run that succeeded.
OutputOfSuccess ==
  \A r \in bcq \union archive :
    r.src \in DOMAIN batches /\ batches[r.src] # NoRun
      => execs[batches[r.src].job][batches[r.src].run].state = "success"

\* A failed run never stands in the way of its own repetition: while rows are
\* claimed, initJob is refused only to a job that still runs.  No leftover step,
\* no row without a target and no number of batches stops it, whatever became of
\* the workflow.  (A job left RUNNING, see KilledIsFailed, is refused for good;
\* a fresh run is refused when a step has fewer rows than it is to claim.)
RerunsAreAccepted ==
  \A j \in Jobs, maxBatch \in MaxBatchArgs : IsRerun(j) /\ Running(j) = {}
    => NotRunning(j) /\ HasBatches(j) /\ CanClaim(j, maxBatch)

\* A job never stays in RUNNING when its workflow has ended, or no later
\* initJob would be accepted ("On failure, the job is failed by the TermJobNode").
KilledIsFailed == \A j \in Jobs : ~Live(j) => Running(j) = {}

\* Every run ends, in the metadata too.
RunsEnd == \A j \in Jobs : Running(j) # {} ~> Running(j) = {}

=============================================================================
