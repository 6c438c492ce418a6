------------------------- MODULE JobWorkflowProofs --------------------------
(* Proofs about workflows, for every catalogue and every graph of steps,    *)
(* with nodes that fail at will: steps run in order, a run that succeeded   *)
(* is complete and leaves nothing behind, and delivers once.  The proofs    *)
(* use of a failing node only that its call was made or not.                *)
EXTENDS JobWorkflow, JobControlProofs

-----------------------------------------------------------------------------
(***************************************************************************)
(* What a node does to the tables: its call, or nothing.                   *)
(***************************************************************************)
LEMMA InitJobNodeFacts ==
  ASSUME NEW j \in Jobs, InitJobNode(j)
  PROVE  /\ ~Live(j)
         /\ \/ /\ Begin(j)
               /\ \E maxBatch \in MaxBatchArgs : InitJob(j, maxBatch)
            \/ /\ Goto(j, "killed")
               /\ UNCHANGED vars \/ \E maxBatch \in MaxBatchArgs : InitJob(j, maxBatch)
  BY DEF InitJobNode, Succeeds, Fails

LEMMA InitStepNodeFacts ==
  ASSUME NEW s \in Subs, InitStepNode(s)
  PROVE  /\ Live(ParentOf[s]) /\ node[s] = "initstep" /\ MayInit(s)
         /\ \/ InitStep(s) /\ Reach(s, "action")
            \/ (UNCHANGED vars \/ InitStep(s)) /\ Abandon(s)
  BY DEF InitStepNode, Succeeds, Fails

LEMMA HaltStepNodeFacts ==
  ASSUME NEW s \in Subs, HaltStepNode(s)
  PROVE  /\ Live(ParentOf[s]) /\ node[s] = "haltstep"
         /\ \/ HaltStep(s) /\ Reach(s, "done")
            \/ (UNCHANGED vars \/ HaltStep(s)) /\ Reach(s, "termstep")
  BY DEF HaltStepNode, Succeeds, Fails

LEMMA TermStepNodeFacts ==
  ASSUME NEW s \in Subs, TermStepNode(s)
  PROVE  Abandon(s) /\ (UNCHANGED vars \/ TermStep(s))
  BY DEF TermStepNode, Succeeds, Fails

LEMMA HaltJobNodeFacts ==
  ASSUME NEW j \in Jobs, HaltJobNode(j)
  PROVE  /\ Live(j) /\ \A s \in SubsOf(j) : node[s] = "done"
         /\ Goto(j, "succeeded") \/ Goto(j, "termjob")
         /\ UNCHANGED vars \/ HaltJob(j)
  BY DEF HaltJobNode, Succeeds, Fails, Live

LEMMA TermJobNodeFacts ==
  ASSUME NEW j \in Jobs, TermJobNode(j)
  PROVE  Goto(j, "killed") /\ (UNCHANGED vars \/ TermJob(j))
  BY DEF TermJobNode, Succeeds, Fails

\* A file leaves the executions alone.
LEMMA FileFacts ==
  ASSUME NEW j \in Jobs, File(j)
  PROVE  BatchEnqueue(j) /\ UNCHANGED <<execs, wf, node>>
  BY DEF File, BatchEnqueue, wfVars

\* A step of a workflow is a call, or leaves the tables alone: what is proved of
\* the calls in any order holds of workflows.
LEMMA WorkflowMakesCalls == [WorkflowNext]_allVars => [Next]_vars
<1> SUFFICES ASSUME WorkflowNext PROVE [Next]_vars
  BY DEF allVars, vars
<1>1. ASSUME NEW j \in Jobs, InitJobNode(j) PROVE [Next]_vars
  BY <1>1, InitJobNodeFacts DEF Next
<1>2. ASSUME NEW j \in Jobs, HaltJobNode(j) \/ TermJobNode(j) PROVE [Next]_vars
  BY <1>2, HaltJobNodeFacts, TermJobNodeFacts DEF Next
<1>3. ASSUME NEW s \in Subs, InitStepNode(s) \/ HaltStepNode(s) \/ TermStepNode(s)
      PROVE  [Next]_vars
  BY <1>3, InitStepNodeFacts, HaltStepNodeFacts, TermStepNodeFacts DEF Next
<1>4. ASSUME NEW s \in Subs, ActionNode(s) PROVE [Next]_vars
  BY <1>4 DEF ActionNode
<1>5. ASSUME NEW j \in Jobs, File(j) PROVE [Next]_vars
  BY <1>5, FileFacts DEF Next
<1> QED
  BY <1>1, <1>2, <1>3, <1>4, <1>5 DEF WorkflowNext, Engine, SubsOf

\* So executions nest in a workflow as they do under any calls.
THEOREM WorkflowsAreNested == WorkflowSpec => []ExecInv
<1>1. WorkflowInit => Init
  BY DEF WorkflowInit
<1>2. WorkflowSpec => Spec
  BY <1>1, WorkflowMakesCalls, PTL DEF WorkflowSpec, Spec
<1> QED
  BY <1>2, TypeCorrect, RunsAreNested, PTL DEF ExecInv

-----------------------------------------------------------------------------
(***************************************************************************)
(* What the calls do to the executions of one process.                     *)
(***************************************************************************)
Starts(p, during) == execs' = Start(p, during)
Ends(p, state) == \E i \in Running(p) : execs' = Finish(p, i, state)

LEMMA CallEffects ==
  /\ \A j \in Jobs : \A maxBatch : InitJob(j, maxBatch) => Starts(j, Len(execs[j]) + 1)
  /\ \A j \in Jobs : HaltJob(j) => Ends(j, "success")
  /\ \A j \in Jobs : TermJob(j) => Ends(j, "failed")
  /\ \A s \in Subs : InitStep(s) => Starts(s, Len(execs[ParentOf[s]]))
  /\ \A s \in Subs : HaltStep(s) => Ends(s, "success")
  /\ \A s \in Subs : TermStep(s) => Ends(s, "failed")
  /\ \A j \in Jobs : BatchEnqueue(j) => UNCHANGED execs
BY DEF InitJob, HaltJob, TermJob, InitStep, HaltStep, TermStep, EndStep, BatchEnqueue,
       Starts, Ends

LEMMA NextEffects ==
  ASSUME TypeOK, [Next]_vars
  PROVE  \/ UNCHANGED execs
         \/ \E p \in Processes : \E n \in Nat : Starts(p, n)
         \/ \E p \in Processes : \E st \in {"success", "failed"} : Ends(p, st)
<1>1. \A p \in Processes : Len(execs[p]) \in Nat
  BY ExecFacts
<1>2. \A s \in Subs : ParentOf[s] \in Processes
  BY ParentFacts
<1>3. Jobs \subseteq Processes /\ Subs \subseteq Processes
  BY DEF Processes
<1> QED
  BY <1>1, <1>2, <1>3, CallEffects DEF Next, vars

\* What succeeded stays so, and a history only grows.
LEMMA SuccessStays ==
  ASSUME TypeOK, [Next]_vars, NEW p \in Processes
  PROVE  \A i \in DOMAIN execs[p] :
           i \in DOMAIN execs'[p] /\ (i \notin Running(p) => execs'[p][i] = execs[p][i])
<1>1. CASE UNCHANGED execs
  BY <1>1
<1>2. ASSUME NEW q \in Processes, NEW n \in Nat, Starts(q, n)
      PROVE  \A i \in DOMAIN execs[p] :
               i \in DOMAIN execs'[p] /\ (i \notin Running(p) => execs'[p][i] = execs[p][i])
  <2>1. /\ execs' \in [Processes -> Seq(Exec)]
        /\ \A r \in Processes \ {q} : execs'[r] = execs[r]
        /\ Len(execs'[q]) = Len(execs[q]) + 1
        /\ \A i \in 1 .. Len(execs[q]) : execs'[q][i] = execs[q][i]
    <3>1. execs \in [Processes -> Seq(Exec)] /\ execs' = Start(q, n)
      BY <1>2 DEF Starts, TypeOK
    <3>2. /\ Start(q, n) \in [Processes -> Seq(Exec)]
          /\ \A r \in Processes \ {q} : Start(q, n)[r] = execs[r]
          /\ Len(Start(q, n)[q]) = Len(execs[q]) + 1
          /\ \A i \in 1 .. Len(execs[q]) : Start(q, n)[q][i] = execs[q][i]
      BY <3>1, StartFacts
    <3> QED
      BY <3>1, <3>2
  <2>2. Len(execs[q]) \in Nat /\ DOMAIN execs[q] = 1 .. Len(execs[q])
    BY ExecFacts
  <2>3. DOMAIN execs'[q] = 1 .. Len(execs[q]) + 1
    BY <2>1, LenProperties
  <2> QED
    BY <2>1, <2>2, <2>3
<1>3. ASSUME NEW q \in Processes, NEW st \in {"success", "failed"}, Ends(q, st)
      PROVE  \A i \in DOMAIN execs[p] :
               i \in DOMAIN execs'[p] /\ (i \notin Running(p) => execs'[p][i] = execs[p][i])
  <2>1. PICK k \in Running(q) : execs' = Finish(q, k, st)
    BY <1>3 DEF Ends
  <2>2. /\ execs' \in [Processes -> Seq(Exec)]
        /\ \A r \in Processes \ {q} : execs'[r] = execs[r]
        /\ Len(execs'[q]) = Len(execs[q])
        /\ \A i \in 1 .. Len(execs[q]) \ {k} : execs'[q][i] = execs[q][i]
    <3>1. execs \in [Processes -> Seq(Exec)] /\ k \in DOMAIN execs[q] /\ st \in ExecState
      BY ExecFacts DEF ExecState, TypeOK
    <3>2. /\ Finish(q, k, st) \in [Processes -> Seq(Exec)]
          /\ \A r \in Processes \ {q} : Finish(q, k, st)[r] = execs[r]
          /\ Len(Finish(q, k, st)[q]) = Len(execs[q])
          /\ Finish(q, k, st)[q][k] = [execs[q][k] EXCEPT !.state = st]
          /\ \A i \in 1 .. Len(execs[q]) \ {k} : Finish(q, k, st)[q][i] = execs[q][i]
      BY <3>1, FinishFacts
    <3> QED
      BY <2>1, <3>2
  <2>3. DOMAIN execs[q] = 1 .. Len(execs[q])
    BY ExecFacts
  <2>4. DOMAIN execs'[q] = 1 .. Len(execs[q])
    BY <2>2, LenProperties
  <2> QED
    BY <2>2, <2>3, <2>4
<1> QED
  BY <1>1, <1>2, <1>3, NextEffects

\* Succeeded, of the tables after a step.
NowSucceeded(s, run) ==
  \E i \in DOMAIN execs'[s] : execs'[s][i] = [state |-> "success", during |-> run]

\* A success is never taken back.
LEMMA SucceededStays ==
  ASSUME TypeOK, [Next]_vars
  PROVE  \A s \in Subs : \A run : Succeeded(s, run) => NowSucceeded(s, run)
<1> SUFFICES ASSUME NEW s \in Subs, NEW run, Succeeded(s, run)
             PROVE  NowSucceeded(s, run)
  OBVIOUS
<1>1. PICK i \in DOMAIN execs[s] : execs[s][i] = [state |-> "success", during |-> run]
  BY DEF Succeeded
<1>2. s \in Processes
  BY DEF Processes
<1>3. i \notin Running(s)
  BY <1>1 DEF Running
<1>4. i \in DOMAIN execs'[s] /\ execs'[s][i] = execs[s][i]
  BY <1>2, <1>3, SuccessStays
<1> QED
  BY <1>1, <1>4 DEF NowSucceeded

\* A call touches the history of one process.
Touches(p) ==
  \/ UNCHANGED execs
  \/ \E n \in Nat : Starts(p, n)
  \/ \E st \in {"success", "failed"} : Ends(p, st)

LEMMA OthersUntouched ==
  ASSUME TypeOK, NEW p \in Processes, Touches(p)
  PROVE  \A q \in Processes \ {p} : execs'[q] = execs[q]
<1>1. execs \in [Processes -> Seq(Exec)]
  BY DEF TypeOK
<1>2. \A n \in Nat : \A q \in Processes \ {p} : Start(p, n)[q] = execs[q]
  BY <1>1, StartFacts
<1>3. \A i : \A st : \A q \in Processes \ {p} : Finish(p, i, st)[q] = execs[q]
  BY <1>1 DEF Finish
<1> QED
  BY <1>2, <1>3 DEF Touches, Starts, Ends

\* The end of an execution changes the state of that one alone.
LEMMA EndEffect ==
  ASSUME TypeOK, NEW p \in Processes, NEW st \in {"success", "failed"}, NEW i \in Running(p),
         execs' = Finish(p, i, st)
  PROVE  /\ Len(execs'[p]) = Len(execs[p]) /\ DOMAIN execs'[p] = DOMAIN execs[p]
         /\ execs'[p] # <<>> /\ execs'[p][i].state = st
         /\ \A k \in DOMAIN execs[p] : execs'[p][k].during = execs[p][k].during
<1>1. /\ execs \in [Processes -> Seq(Exec)] /\ execs[p] \in Seq(Exec)
      /\ i \in DOMAIN execs[p] /\ i \in 1 .. Len(execs[p]) /\ st \in ExecState
      /\ execs[p][i] \in Exec
  BY ExecFacts DEF ExecState, TypeOK
<1>2. /\ Finish(p, i, st) \in [Processes -> Seq(Exec)]
      /\ \A r \in Processes \ {p} : Finish(p, i, st)[r] = execs[r]
      /\ Len(Finish(p, i, st)[p]) = Len(execs[p])
      /\ Finish(p, i, st)[p][i] = [execs[p][i] EXCEPT !.state = st]
      /\ \A k \in 1 .. Len(execs[p]) \ {i} : Finish(p, i, st)[p][k] = execs[p][k]
  BY <1>1, FinishFacts
<1>3. /\ execs'[p] \in Seq(Exec) /\ Len(execs'[p]) = Len(execs[p])
      /\ execs'[p][i] = [execs[p][i] EXCEPT !.state = st]
      /\ \A k \in 1 .. Len(execs[p]) \ {i} : execs'[p][k] = execs[p][k]
  BY <1>2
<1>4. DOMAIN execs'[p] = 1 .. Len(execs[p]) /\ DOMAIN execs[p] = 1 .. Len(execs[p])
  BY <1>1, <1>3, LenProperties
<1>5. execs'[p][i].state = st /\ execs'[p][i].during = execs[p][i].during
  BY <1>1, <1>3 DEF Exec
<1>6. execs'[p] # <<>>
  BY <1>1, <1>4
<1> QED
  BY <1>3, <1>4, <1>5, <1>6

\* The start of an execution appends a running one.
LEMMA StartEffect ==
  ASSUME TypeOK, NEW p \in Processes, NEW n \in Nat, Starts(p, n)
  PROVE  /\ Len(execs'[p]) = Len(execs[p]) + 1 /\ LastState(p)' = "running"
         /\ \A k \in DOMAIN execs'[p] :
              IF k \in DOMAIN execs[p] THEN execs'[p][k] = execs[p][k]
              ELSE execs'[p][k].during = n
<1>1. execs \in [Processes -> Seq(Exec)] /\ execs' = Start(p, n)
  BY DEF Starts, TypeOK
<1>2. /\ Start(p, n) \in [Processes -> Seq(Exec)]
      /\ Len(Start(p, n)[p]) = Len(execs[p]) + 1
      /\ Start(p, n)[p][Len(execs[p]) + 1] = [state |-> "running", during |-> n]
      /\ \A i \in 1 .. Len(execs[p]) : Start(p, n)[p][i] = execs[p][i]
  BY <1>1, StartFacts
<1>3. /\ execs'[p] \in Seq(Exec) /\ Len(execs'[p]) = Len(execs[p]) + 1
      /\ execs'[p][Len(execs[p]) + 1] = [state |-> "running", during |-> n]
      /\ \A i \in 1 .. Len(execs[p]) : execs'[p][i] = execs[p][i]
  BY <1>1, <1>2
<1>4. /\ Len(execs[p]) \in Nat /\ DOMAIN execs[p] = 1 .. Len(execs[p])
      /\ DOMAIN execs'[p] = 1 .. Len(execs[p]) + 1
  BY <1>3, ExecFacts, LenProperties
<1>5. execs'[p] # <<>> /\ execs'[p][Len(execs'[p])].state = "running"
  BY <1>3, <1>4
<1>6. LastState(p)' = "running"
  BY <1>5 DEF LastState
<1> QED
  BY <1>3, <1>4, <1>6

-----------------------------------------------------------------------------
(***************************************************************************)
(* The order of steps.  A branch that is done succeeded in the run its     *)
(* workflow is at; a workflow that ended proves nothing any more.          *)
(***************************************************************************)
FlowTypes ==
  /\ wf \in [Jobs -> {"none", "steps", "termjob", "succeeded", "killed"}]
  /\ node \in [Subs -> {"initstep", "action", "haltstep", "termstep", "done", "failed"}]
DoneRan ==
  \A s \in Subs :
    Live(ParentOf[s]) /\ node[s] = "done" => Succeeded(s, Len(execs[ParentOf[s]]))
FlowInv == FlowTypes /\ DoneRan /\ StepOrder /\ EveryStepRan

\* A step halted ends the execution of its job's run with success.
LEMMA HaltedSucceeds ==
  ASSUME ExecInv, NEW s \in Subs, HaltStep(s)
  PROVE  Succeeded(s, Len(execs[ParentOf[s]]))'
<1>1. PICK i \in Running(s) : execs' = Finish(s, i, "success")
  BY DEF HaltStep, EndStep
<1>2. s \in Processes /\ ParentOf[s] \in Processes \ {s} /\ TypeOK
  BY ParentFacts DEF ExecInv
<1>3. execs[s][i].during = Len(execs[ParentOf[s]])
  BY DEF ExecInv, StepsUnderJob
<1>4. /\ DOMAIN execs'[s] = DOMAIN execs[s] /\ execs'[s][i].state = "success"
      /\ \A k \in DOMAIN execs[s] : execs'[s][k].during = execs[s][k].during
  BY <1>1, <1>2, EndEffect
<1>5. i \in DOMAIN execs[s]
  BY DEF Running
<1>6. execs'[ParentOf[s]] = execs[ParentOf[s]]
  BY <1>1, <1>2, OthersUntouched DEF Touches, Ends
<1>7. execs'[s][i] \in Exec
  <2>1. /\ execs \in [Processes -> Seq(Exec)] /\ i \in DOMAIN execs[s]
        /\ "success" \in ExecState
    BY <1>2, <1>5 DEF TypeOK, ExecState
  <2>2. Finish(s, i, "success") \in [Processes -> Seq(Exec)]
    BY <1>2, <2>1, FinishFacts
  <2> QED
    BY <1>1, <1>2, <1>4, <1>5, <2>2, ElementOfSeq
<1>8. execs'[s][i] = [state |-> "success", during |-> Len(execs[ParentOf[s]])]
  BY <1>3, <1>4, <1>5, <1>7 DEF Exec
<1> QED
  BY <1>4, <1>5, <1>6, <1>8 DEF Succeeded

\* Calls for a step leave the other processes alone, and so do calls for a job.
LEMMA StepCallAlone ==
  ASSUME TypeOK, NEW s \in Subs, UNCHANGED vars \/ InitStep(s) \/ HaltStep(s) \/ TermStep(s)
  PROVE  \A p \in Processes \ {s} : execs'[p] = execs[p]
<1>1. s \in Processes /\ Len(execs[ParentOf[s]]) \in Nat
  BY ParentFacts, ExecFacts
<1>2. Touches(s)
  BY <1>1, CallEffects DEF Touches, vars
<1> QED
  BY <1>1, <1>2, OthersUntouched

LEMMA JobCallAlone ==
  ASSUME TypeOK, NEW j \in Jobs,
         UNCHANGED vars \/ HaltJob(j) \/ TermJob(j) \/ \E maxBatch \in MaxBatchArgs : InitJob(j, maxBatch)
  PROVE  \A p \in Processes \ {j} : execs'[p] = execs[p]
<1>1. j \in Processes /\ Len(execs[j]) + 1 \in Nat
  BY ExecFacts DEF Processes
<1>2. Touches(j)
  BY <1>1, CallEffects DEF Touches, vars
<1> QED
  BY <1>1, <1>2, OthersUntouched

\* When each part of the invariant survives.
LEMMA OrderStays ==
  ASSUME TypeOK, [Next]_vars, StepOrder,
         \A s \in Subs : \A i \in DOMAIN execs'[s] :
           i \in DOMAIN execs[s] /\ execs'[s][i].during = execs[s][i].during
  PROVE  StepOrder'
<1>1. \A s \in Subs : Follows(s) \subseteq Subs
  BY DEF Follows, SubsOf
<1> SUFFICES ASSUME NEW s \in Subs, NEW i \in DOMAIN execs'[s], NEW t \in Follows(s)
             PROVE  NowSucceeded(t, execs'[s][i].during)
  BY DEF StepOrder, Succeeded, NowSucceeded, Follows, SubsOf
<1>2. Succeeded(t, execs'[s][i].during)
  BY DEF StepOrder
<1> QED
  BY <1>1, <1>2, SucceededStays

LEMMA RanStays ==
  ASSUME TypeOK, [Next]_vars, EveryStepRan,
         \A j \in Jobs : LastState(j)' = "success" =>
           LastState(j) = "success" /\ Len(execs'[j]) = Len(execs[j])
  PROVE  EveryStepRan'
<1>1. \A j \in Jobs : SubsOf(j) \subseteq Subs
  BY SubsOfFacts
<1> SUFFICES ASSUME NEW j \in Jobs, LastState(j)' = "success", NEW s \in SubsOf(j)
             PROVE  NowSucceeded(s, Len(execs'[j]))
  BY DEF EveryStepRan, Succeeded, NowSucceeded, SubsOf
<1>2. Succeeded(s, Len(execs'[j]))
  BY DEF EveryStepRan
<1> QED
  BY <1>1, <1>2, SucceededStays

LEMMA DoneStays ==
  ASSUME TypeOK, [Next]_vars, DoneRan,
         \A s \in Subs : Live(ParentOf[s])' /\ node'[s] = "done" =>
           /\ Live(ParentOf[s]) /\ node[s] = "done"
           /\ Len(execs'[ParentOf[s]]) = Len(execs[ParentOf[s]])
  PROVE  DoneRan'
<1> SUFFICES ASSUME NEW s \in Subs, Live(ParentOf[s])', node'[s] = "done"
             PROVE  NowSucceeded(s, Len(execs'[ParentOf[s]]))
  BY DEF DoneRan, Succeeded, NowSucceeded
<1>1. Succeeded(s, Len(execs'[ParentOf[s]]))
  BY DEF DoneRan
<1> QED
  BY <1>1, SucceededStays

\* Calls for a step keep what is known of runs, and those that end one the order.
LEMMA StepCallKeeps ==
  ASSUME ExecInv, FlowInv, [Next]_vars, NEW s \in Subs,
         UNCHANGED vars \/ InitStep(s) \/ HaltStep(s) \/ TermStep(s)
  PROVE  /\ EveryStepRan'
         /\ \A j \in Jobs : execs'[j] = execs[j]
         /\ ~InitStep(s) => StepOrder'
<1>0. TypeOK /\ StepOrder /\ EveryStepRan
  BY DEF ExecInv, FlowInv
<1>1. \A p \in Processes \ {s} : execs'[p] = execs[p]
  BY <1>0, StepCallAlone
<1>2. s \in Processes /\ s \notin Jobs /\ Jobs \subseteq Processes
  BY ParentFacts DEF Processes
<1>3. \A j \in Jobs : execs'[j] = execs[j]
  BY <1>1, <1>2
<1>4. EveryStepRan'
  <2>1. \A j \in Jobs : LastState(j)' = LastState(j) /\ Len(execs'[j]) = Len(execs[j])
    BY <1>3 DEF LastState
  <2> QED
    BY <1>0, <2>1, RanStays
<1>5. ASSUME ~InitStep(s) PROVE StepOrder'
  <2>1. \A i \in DOMAIN execs'[s] :
          i \in DOMAIN execs[s] /\ execs'[s][i].during = execs[s][i].during
    <3>1. CASE UNCHANGED vars
      BY <3>1 DEF vars
    <3>2. ASSUME NEW st \in {"success", "failed"}, Ends(s, st)
          PROVE  \A i \in DOMAIN execs'[s] :
                   i \in DOMAIN execs[s] /\ execs'[s][i].during = execs[s][i].during
      <4>1. PICK k \in Running(s) : execs' = Finish(s, k, st)
        BY <3>2 DEF Ends
      <4> QED
        BY <1>0, <1>2, <4>1, EndEffect
    <3> QED
      BY <1>5, <3>1, <3>2, CallEffects
  <2>2. \A t \in Subs : \A i \in DOMAIN execs'[t] :
          i \in DOMAIN execs[t] /\ execs'[t][i].during = execs[t][i].during
    BY <1>1, <2>1 DEF Processes
  <2> QED
    BY <1>0, <2>2, OrderStays
<1> QED
  BY <1>3, <1>4, <1>5

\* Calls for a job keep the order of steps.
LEMMA JobCallKeeps ==
  ASSUME ExecInv, FlowInv, [Next]_vars, NEW j \in Jobs,
         UNCHANGED vars \/ HaltJob(j) \/ TermJob(j) \/ \E maxBatch \in MaxBatchArgs : InitJob(j, maxBatch)
  PROVE  /\ StepOrder'
         /\ \A p \in Processes \ {j} : execs'[p] = execs[p]
<1>0. TypeOK /\ StepOrder
  BY DEF ExecInv, FlowInv
<1>1. \A p \in Processes \ {j} : execs'[p] = execs[p]
  BY <1>0, JobCallAlone
<1>2. \A s \in Subs : execs'[s] = execs[s]
  BY <1>1, ParentFacts DEF Processes
<1>3. StepOrder'
  BY <1>0, <1>2, OrderStays
<1> QED
  BY <1>1, <1>3

LEMMA FlowStep ==
  ASSUME ExecInv, FlowInv, [WorkflowNext]_allVars
  PROVE  FlowInv'
<1>0. /\ TypeOK /\ FlowTypes /\ DoneRan /\ StepOrder /\ EveryStepRan
      /\ [Next]_vars
  BY WorkflowMakesCalls DEF ExecInv, FlowInv
<1>1. CASE UNCHANGED allVars
  BY <1>1 DEF FlowInv, allVars, FlowTypes, DoneRan, StepOrder, EveryStepRan, Succeeded,
              Live, LastState
<1>2. ASSUME NEW j \in Jobs, InitJobNode(j) PROVE FlowInv'
  <2>0. UNCHANGED vars \/ \E maxBatch \in MaxBatchArgs : InitJob(j, maxBatch)
    BY <1>2, InitJobNodeFacts
  <2>1. /\ StepOrder'
        /\ \A p \in Processes \ {j} : execs'[p] = execs[p]
    BY <1>0, <2>0, JobCallKeeps
  <2>2. j \in Processes /\ Jobs \subseteq Processes
    BY DEF Processes
  <2>3. FlowTypes'
    BY <1>0, <1>2, InitJobNodeFacts DEF FlowTypes, Begin, Goto
  <2>4. EveryStepRan'
    <3>1. CASE UNCHANGED vars
      BY <1>0, <3>1 DEF vars, EveryStepRan, LastState, Succeeded
    <3>2. CASE \E maxBatch \in MaxBatchArgs : InitJob(j, maxBatch)
      <4>1. Starts(j, Len(execs[j]) + 1) /\ Len(execs[j]) + 1 \in Nat
        BY <1>0, <2>2, <3>2, CallEffects, ExecFacts
      <4>2. LastState(j)' = "running"
        BY <1>0, <2>2, <4>1, StartEffect
      <4>3. \A k \in Jobs : LastState(k)' = "success" =>
              LastState(k) = "success" /\ Len(execs'[k]) = Len(execs[k])
        BY <2>1, <2>2, <4>2 DEF LastState
      <4> QED
        BY <1>0, <4>3, RanStays
    <3> QED
      BY <2>0, <3>1, <3>2
  <2>5. DoneRan'
    <3>1. ASSUME NEW s \in Subs, Live(ParentOf[s])', node'[s] = "done"
          PROVE  /\ Live(ParentOf[s]) /\ node[s] = "done"
                 /\ Len(execs'[ParentOf[s]]) = Len(execs[ParentOf[s]])
      <4>1. ParentOf[s] \in Jobs
        BY ParentFacts
      <4>2. ParentOf[s] # j
        BY <1>0, <1>2, <3>1, <4>1, InitJobNodeFacts DEF Begin, Goto, Live, FlowTypes
      <4>3. wf'[ParentOf[s]] = wf[ParentOf[s]] /\ node'[s] = node[s]
        BY <1>0, <1>2, <4>1, <4>2, InitJobNodeFacts DEF Begin, Goto, FlowTypes
      <4> QED
        BY <2>1, <2>2, <3>1, <4>1, <4>2, <4>3 DEF Live
    <3> QED
      BY <1>0, <3>1, DoneStays
  <2> QED
    BY <2>1, <2>3, <2>4, <2>5 DEF FlowInv
<1>3. ASSUME NEW j \in Jobs, HaltJobNode(j) PROVE FlowInv'
  <2>0. /\ UNCHANGED vars \/ HaltJob(j)
        /\ Live(j) /\ \A s \in SubsOf(j) : node[s] = "done"
        /\ Goto(j, "succeeded") \/ Goto(j, "termjob")
    BY <1>3, HaltJobNodeFacts
  <2>1. /\ StepOrder'
        /\ \A p \in Processes \ {j} : execs'[p] = execs[p]
    BY <1>0, <2>0, JobCallKeeps
  <2>2. j \in Processes /\ Jobs \subseteq Processes
    BY DEF Processes
  <2>3. FlowTypes'
    BY <1>0, <2>0 DEF FlowTypes, Goto
  <2>4. \A k \in Jobs : Len(execs'[k]) = Len(execs[k])
    <3>1. Len(execs'[j]) = Len(execs[j])
      <4>1. CASE UNCHANGED vars
        BY <4>1 DEF vars
      <4>2. CASE HaltJob(j)
        <5>1. PICK i \in Running(j) : execs' = Finish(j, i, "success")
          BY <4>2 DEF HaltJob
        <5> QED
          BY <1>0, <2>2, <5>1, EndEffect
      <4> QED
        BY <2>0, <4>1, <4>2
    <3> QED
      BY <2>1, <2>2, <3>1
  <2>5. EveryStepRan'
    <3> SUFFICES ASSUME NEW k \in Jobs, LastState(k)' = "success", NEW s \in SubsOf(k)
                 PROVE  NowSucceeded(s, Len(execs'[k]))
      BY DEF EveryStepRan, Succeeded, NowSucceeded, SubsOf
    <3>1. s \in Subs /\ ParentOf[s] = k
      BY DEF SubsOf
    <3>2. Succeeded(s, Len(execs[k]))
      <4>1. CASE k = j
        BY <1>0, <2>0, <3>1, <4>1 DEF DoneRan
      <4>2. CASE k # j
        BY <1>0, <2>1, <2>2, <4>2 DEF EveryStepRan, LastState
      <4> QED
        BY <4>1, <4>2
    <3>3. NowSucceeded(s, Len(execs[k]))
      BY <1>0, <3>1, <3>2, SucceededStays
    <3> QED
      BY <2>4, <3>3
  <2>6. DoneRan'
    <3>1. \A s \in Subs : Live(ParentOf[s])' /\ node'[s] = "done" =>
            /\ Live(ParentOf[s]) /\ node[s] = "done"
            /\ Len(execs'[ParentOf[s]]) = Len(execs[ParentOf[s]])
      BY <1>0, <2>0, <2>4, ParentFacts DEF Goto, Live, FlowTypes
    <3> QED
      BY <1>0, <3>1, DoneStays
  <2> QED
    BY <2>1, <2>3, <2>5, <2>6 DEF FlowInv
<1>4. ASSUME NEW j \in Jobs, TermJobNode(j) PROVE FlowInv'
  <2>0. (UNCHANGED vars \/ TermJob(j)) /\ Goto(j, "killed")
    BY <1>4, TermJobNodeFacts
  <2>1. /\ StepOrder'
        /\ \A p \in Processes \ {j} : execs'[p] = execs[p]
    BY <1>0, <2>0, JobCallKeeps
  <2>2. j \in Processes /\ Jobs \subseteq Processes
    BY DEF Processes
  <2>3. FlowTypes'
    BY <1>0, <2>0 DEF FlowTypes, Goto
  <2>4. EveryStepRan'
    <3>1. CASE UNCHANGED vars
      BY <1>0, <3>1 DEF vars, EveryStepRan, LastState, Succeeded
    <3>2. CASE TermJob(j)
      <4>1. PICK i \in Running(j) : execs' = Finish(j, i, "failed")
        BY <3>2 DEF TermJob
      <4>2. i = Len(execs[j])
        BY <2>2 DEF ExecInv, OneInstance
      <4>3. LastState(j)' = "failed"
        BY <1>0, <2>2, <4>1, <4>2, EndEffect DEF LastState
      <4>4. \A k \in Jobs : LastState(k)' = "success" =>
              LastState(k) = "success" /\ Len(execs'[k]) = Len(execs[k])
        BY <2>1, <2>2, <4>3 DEF LastState
      <4> QED
        BY <1>0, <4>4, RanStays
    <3> QED
      BY <2>0, <3>1, <3>2
  <2>5. DoneRan'
    <3>1. \A s \in Subs : Live(ParentOf[s])' /\ node'[s] = "done" =>
            /\ Live(ParentOf[s]) /\ node[s] = "done"
            /\ Len(execs'[ParentOf[s]]) = Len(execs[ParentOf[s]])
      BY <1>0, <2>0, <2>1, <2>2, ParentFacts DEF Goto, Live, FlowTypes
    <3> QED
      BY <1>0, <3>1, DoneStays
  <2> QED
    BY <2>1, <2>3, <2>4, <2>5 DEF FlowInv
<1>5. ASSUME NEW s \in Subs, InitStepNode(s) PROVE FlowInv'
  <2>0. /\ Live(ParentOf[s]) /\ node[s] = "initstep" /\ MayInit(s)
        /\ \/ InitStep(s) /\ Reach(s, "action")
           \/ (UNCHANGED vars \/ InitStep(s)) /\ Abandon(s)
    BY <1>5, InitStepNodeFacts
  <2>1. EveryStepRan' /\ (\A j \in Jobs : execs'[j] = execs[j]) /\ (~InitStep(s) => StepOrder')
    BY <1>0, <2>0, StepCallKeeps
  <2>2. ParentOf[s] \in Jobs /\ s \in Processes /\ Len(execs[ParentOf[s]]) \in Nat
    BY <1>0, ParentFacts, ExecFacts
  <2>3. FlowTypes'
    BY <1>0, <2>0, <2>2 DEF FlowTypes, Reach, Abandon
  <2>4. ASSUME InitStep(s) PROVE StepOrder'
    <3>1. Starts(s, Len(execs[ParentOf[s]]))
      BY <2>4, CallEffects
    <3>2. \A k \in DOMAIN execs'[s] :
            IF k \in DOMAIN execs[s] THEN execs'[s][k] = execs[s][k]
            ELSE execs'[s][k].during = Len(execs[ParentOf[s]])
      BY <1>0, <2>2, <3>1, StartEffect
    <3>3. \A t \in Follows(s) : t \in Subs /\ Succeeded(t, Len(execs[ParentOf[s]]))
      BY <1>0, <2>0 DEF MayInit, DoneRan, Follows, SubsOf
    <3>4. \A p \in Processes \ {s} : execs'[p] = execs[p]
      BY <1>0, <2>4, StepCallAlone
    <3> SUFFICES ASSUME NEW u \in Subs, NEW i \in DOMAIN execs'[u], NEW t \in Follows(u)
                 PROVE  NowSucceeded(t, execs'[u][i].during)
      BY DEF StepOrder, Succeeded, NowSucceeded, Follows, SubsOf
    <3>5. t \in Subs
      BY DEF Follows, SubsOf
    <3>6. Succeeded(t, execs'[u][i].during)
      <4>1. CASE i \in DOMAIN execs[u] /\ execs'[u][i] = execs[u][i]
        BY <1>0, <4>1 DEF StepOrder
      <4>2. CASE u = s /\ execs'[u][i].during = Len(execs[ParentOf[s]])
        BY <3>3, <4>2
      <4> QED
        BY <3>2, <3>4, <4>1, <4>2 DEF Processes
    <3> QED
      BY <1>0, <3>5, <3>6, SucceededStays
  <2>5. DoneRan'
    <3>1. \A t \in Subs : Live(ParentOf[t])' /\ node'[t] = "done" =>
            /\ Live(ParentOf[t]) /\ node[t] = "done"
            /\ Len(execs'[ParentOf[t]]) = Len(execs[ParentOf[t]])
      BY <1>0, <2>0, <2>1, ParentFacts DEF Reach, Abandon, Live, FlowTypes
    <3> QED
      BY <1>0, <3>1, DoneStays
  <2> QED
    BY <2>1, <2>3, <2>4, <2>5 DEF FlowInv
<1>6. ASSUME NEW s \in Subs, HaltStepNode(s) PROVE FlowInv'
  <2>0. /\ Live(ParentOf[s]) /\ node[s] = "haltstep"
        /\ \/ HaltStep(s) /\ Reach(s, "done")
           \/ (UNCHANGED vars \/ HaltStep(s)) /\ Reach(s, "termstep")
    BY <1>6, HaltStepNodeFacts
  <2>1. EveryStepRan' /\ (\A j \in Jobs : execs'[j] = execs[j]) /\ (~InitStep(s) => StepOrder')
    BY <1>0, <2>0, StepCallKeeps
  <2>2. ParentOf[s] \in Jobs
    BY ParentFacts
  <2>3. FlowTypes'
    BY <1>0, <2>0, <2>2 DEF FlowTypes, Reach
  <2>4. StepOrder'
    <3>1. ASSUME InitStep(s) PROVE UNCHANGED vars => FALSE
      <4>1. s \in Processes /\ Len(execs[ParentOf[s]]) \in Nat
        BY <1>0, ParentFacts, ExecFacts
      <4>2. Len(execs'[s]) = Len(execs[s]) + 1 /\ Len(execs[s]) \in Nat
        BY <1>0, <3>1, <4>1, CallEffects, StartEffect, ExecFacts
      <4> QED
        BY <4>2 DEF vars
    <3>2. InitStep(s) /\ HaltStep(s) => FALSE
      BY DEF InitStep, AcceptsInitStep, HaltStep, EndStep
    <3> QED
      BY <2>0, <2>1, <3>1, <3>2
  <2>5. DoneRan'
    <3> SUFFICES ASSUME NEW t \in Subs, Live(ParentOf[t])', node'[t] = "done"
                 PROVE  NowSucceeded(t, Len(execs'[ParentOf[t]]))
      BY DEF DoneRan, Succeeded, NowSucceeded
    <3>1. ParentOf[t] \in Jobs /\ execs'[ParentOf[t]] = execs[ParentOf[t]] /\ Live(ParentOf[t])
      BY <2>0, <2>1, ParentFacts DEF Reach, Live
    <3>2. CASE t = s /\ HaltStep(s)
      BY <3>2, HaltedSucceeds DEF Succeeded, NowSucceeded
    <3>3. CASE node[t] = "done"
      <4>1. Succeeded(t, Len(execs[ParentOf[t]]))
        BY <1>0, <3>1, <3>3 DEF DoneRan
      <4> QED
        BY <1>0, <3>1, <4>1, SucceededStays
    <3> QED
      BY <1>0, <2>0, <3>2, <3>3 DEF Reach, FlowTypes
  <2> QED
    BY <2>1, <2>3, <2>4, <2>5 DEF FlowInv
<1>7. ASSUME NEW s \in Subs, TermStepNode(s) PROVE FlowInv'
  <2>0. Abandon(s) /\ (UNCHANGED vars \/ TermStep(s)) /\ Live(ParentOf[s])
    BY <1>7, TermStepNodeFacts DEF TermStepNode
  <2>1. EveryStepRan' /\ (\A j \in Jobs : execs'[j] = execs[j])
    BY <1>0, <2>0, StepCallKeeps
  <2>2. ParentOf[s] \in Jobs
    BY ParentFacts
  <2>3. FlowTypes'
    BY <1>0, <2>0, <2>2 DEF FlowTypes, Abandon
  <2>4. StepOrder'
    <3>1. InitStep(s) /\ TermStep(s) => FALSE
      BY DEF InitStep, AcceptsInitStep, TermStep, EndStep
    <3>2. CASE UNCHANGED vars
      BY <1>0, <3>2 DEF vars, StepOrder, Succeeded
    <3> QED
      BY <1>0, <2>0, <3>1, <3>2, StepCallKeeps
  <2>5. DoneRan'
    <3>1. \A t \in Subs : Live(ParentOf[t])' /\ node'[t] = "done" =>
            /\ Live(ParentOf[t]) /\ node[t] = "done"
            /\ Len(execs'[ParentOf[t]]) = Len(execs[ParentOf[t]])
      BY <1>0, <2>0, <2>1, ParentFacts DEF Abandon, Live, FlowTypes
    <3> QED
      BY <1>0, <3>1, DoneStays
  <2> QED
    BY <2>1, <2>3, <2>4, <2>5 DEF FlowInv
<1>8. ASSUME NEW s \in Subs, ActionNode(s) PROVE FlowInv'
  <2>0. UNCHANGED vars /\ (Reach(s, "haltstep") \/ Reach(s, "termstep"))
    BY <1>8 DEF ActionNode
  <2>1. EveryStepRan' /\ StepOrder'
    <3>1. UNCHANGED execs
      BY <2>0 DEF vars
    <3>2. EveryStepRan'
      BY <1>0, <3>1 DEF EveryStepRan, LastState, Succeeded
    <3>3. StepOrder'
      BY <1>0, <3>1 DEF StepOrder, Succeeded
    <3> QED
      BY <3>2, <3>3
  <2>2. FlowTypes'
    BY <1>0, <2>0 DEF FlowTypes, Reach
  <2>3. DoneRan'
    <3>1. \A t \in Subs : Live(ParentOf[t])' /\ node'[t] = "done" =>
            /\ Live(ParentOf[t]) /\ node[t] = "done"
            /\ Len(execs'[ParentOf[t]]) = Len(execs[ParentOf[t]])
      BY <1>0, <2>0 DEF vars, Reach, Live, FlowTypes
    <3> QED
      BY <1>0, <3>1, DoneStays
  <2> QED
    BY <2>1, <2>2, <2>3 DEF FlowInv
<1>9. ASSUME NEW j \in Jobs, File(j) PROVE FlowInv'
  BY <1>0, <1>9, FileFacts DEF FlowInv, FlowTypes, DoneRan, StepOrder, EveryStepRan,
       Succeeded, Live, LastState
<1> QED
  BY <1>1, <1>2, <1>3, <1>4, <1>5, <1>6, <1>7, <1>8, <1>9
     DEF WorkflowNext, Engine, SubsOf

LEMMA FlowKept == WorkflowSpec => []FlowInv
<1>1. WorkflowInit => FlowInv
  BY DEF WorkflowInit, Init, FlowInv, FlowTypes, DoneRan, StepOrder, EveryStepRan, Live,
         LastState, Processes
<1>2. ExecInv /\ FlowInv /\ [WorkflowNext]_allVars => FlowInv'
  BY FlowStep
<1> QED
  BY <1>1, <1>2, WorkflowsAreNested, PTL DEF WorkflowSpec

\* Whatever fails and however often a run is repeated, a step starts only after
\* every step before it succeeded in the same run.
THEOREM StepsInOrder == WorkflowSpec => []StepOrder
  BY FlowKept, PTL DEF FlowInv

\* A job is completed only by a run in which all its steps succeeded.
THEOREM CompletedRunsAreComplete == WorkflowSpec => []EveryStepRan
  BY FlowKept, PTL DEF FlowInv

-----------------------------------------------------------------------------
(***************************************************************************)
(* No claimed row is left when a run has succeeded: a branch that is done  *)
(* has processed every row claimed for its step, and haltJob, which only   *)
(* comes when all branches are done, takes the processed rows away.        *)
(***************************************************************************)
DoneProcessed ==
  \A s \in Subs : Live(ParentOf[s]) /\ node[s] = "done" =>
    \A r \in bcq : r.proc = s /\ Claimed(r) => r.state = "processed"
LeftInv == DoneProcessed /\ NothingLeftClaimed

\* x descends from a row that was claimed, and was not set back.
ClaimedBefore(x) ==
  \E r \in bcq : r.proc = x.proc /\ Claimed(r) /\ (r.state = "processed" => x.state = "processed")

\* The query for the first step of a job finds one of its steps.
LEMMA FirstSubFacts ==
  ASSUME NEW j \in Jobs, SubsOf(j) # {}
  PROVE  FirstSub(j) \in SubsOf(j)
<1> DEFINE S == SubsOf(j)
           before(t) == {x \in S : x < t}
           all == {before(t) : t \in S}
<1>1. IsFiniteSet(S) /\ S \subseteq Nat
  <2>1. S \subseteq Subs /\ Subs \subseteq Nat /\ IsFiniteSet(Subs)
    BY SubsOfFacts, CatalogueAssumption
  <2> QED
    BY <2>1, FS_Subset
<1>2. all \subseteq FiniteSubsetsOf(S) /\ all # {}
  <2> HIDE DEF S
  <2>1. S # {}
    BY DEF S
  <2>2. \A t \in S : before(t) \subseteq S /\ IsFiniteSet(before(t))
    BY <1>1, FS_Subset
  <2> QED
    BY <2>1, <2>2 DEF FiniteSubsetsOf
<1>3. PICK m \in all : \A k \in all : <<k, m>> \notin StrictSubsetOrdering(S)
  <2> HIDE DEF all, S
  <2> QED
    BY <1>1, <1>2, FS_StrictSubsetOrderingWellFounded, WFMin
<1>4. PICK s \in S : m = before(s)
  BY <1>3
<1>5. ASSUME NEW t \in S PROVE s <= t
  <2> HIDE DEF S
  <2> SUFFICES ASSUME t < s PROVE FALSE
    BY <1>1
  <2>0. t \in Nat /\ s \in Nat /\ \A x \in S : x \in Nat
    BY <1>1
  <2>1. t \in before(s) /\ t \notin before(t) /\ before(t) \subseteq before(s)
    <3>1. t \in before(s)
      OBVIOUS
    <3>2. t \notin before(t)
      BY <2>0
    <3>3. \A x \in S : x < t => x < s
      BY <2>0
    <3> QED
      BY <3>1, <3>2, <3>3
  <2>2. <<before(t), m>> \in StrictSubsetOrdering(S)
    BY <1>4, <2>1 DEF StrictSubsetOrdering
  <2> QED
    BY <1>3, <2>2
<1>6. \E x \in SubsOf(j) : \A t \in SubsOf(j) : x <= t
  BY <1>5
<1> QED
  BY <1>6 DEF FirstSub

\* Where the claimed rows come from, call by call.
LEMMA InitJobClaims ==
  ASSUME TypeOK, NEW j \in Jobs, NEW maxBatch \in MaxBatchArgs, InitJob(j, maxBatch)
  PROVE  \A x \in bcq' : x.proc \in Subs /\ ParentOf[x.proc] # j /\ Claimed(x) => x \in bcq
<1>1. \A S, src : \A x \in NewRows(S, src) : x.proc \in S /\ ~Claimed(x)
  BY DEF NewRows, NewRow, Claimed
<1>2. bcq \in SUBSET Row /\ \A x \in Row : \A b : Claim(x, b).proc = x.proc
  BY DEF TypeOK, Claim, Row
<1>3. Seeds(j) \subseteq Subs /\ \A s \in Seeds(j) : ParentOf[s] = j
  BY DEF Seeds, SubsOf
<1>4. CASE FreshRun(j, maxBatch)
  <2> DEFINE taken == UNION {Taken(RowsOf(s, SeededQueue(j)), maxBatch) : s \in SubsOf(j)}
  <2>1. \A x \in taken : ParentOf[x.proc] = j /\ x \in SeededQueue(j)
    BY DEF Taken, RowsOf, SubsOf
  <2>2. SeededQueue(j) \subseteq Row
    BY NewRowsType, <1>3 DEF SeededQueue, TypeOK, InitialBatch
  <2>3. bcq' = (SeededQueue(j) \ taken) \union {Claim(r, Len(batches) + 1) : r \in taken}
    BY <1>4 DEF FreshRun, ClaimRows
  <2>4. \A x \in SeededQueue(j) : x \in bcq \/ ~Claimed(x)
    BY <1>1 DEF SeededQueue
  <2> HIDE DEF taken
  <2> QED
    BY <1>2, <2>1, <2>2, <2>3, <2>4
<1>5. CASE Rerun(j)
  <2>1. PICK reset \in SUBSET RowsOf(FirstSub(j), bcq) :
          bcq' = (bcq \ reset) \union {[r EXCEPT !.state = "accessed"] : r \in reset}
    BY <1>5 DEF Rerun, ReopenRows, Oldest
  <2>3. FirstSub(j) \in Subs /\ ParentOf[FirstSub(j)] = j
    <3>1. SubsOf(j) # {}
      BY <1>2, <1>5 DEF Rerun, IsRerun, JobRows, SubsOf, Row
    <3> QED
      BY <3>1, FirstSubFacts DEF SubsOf
  <2>4. \A r \in reset : r \in Row /\ r.proc = FirstSub(j)
    BY <1>2 DEF RowsOf
  <2>5. \A r \in Row : [r EXCEPT !.state = "accessed"].proc = r.proc
    BY DEF Row
  <2> QED
    BY <2>1, <2>3, <2>4, <2>5
<1> QED
  BY <1>4, <1>5 DEF InitJob

LEMMA EndStepClaims ==
  ASSUME TypeOK, NEW s \in Subs, HaltStep(s) \/ TermStep(s)
  PROVE  /\ \A x \in bcq' : Claimed(x) => ClaimedBefore(x)
         /\ HaltStep(s) => \A x \in bcq' : x.proc = s /\ Claimed(x) => x.state = "processed"
<1> DEFINE rows == IF HaltStep(s)
                   THEN IF EnqueuingProcess[s] = NoProcess THEN RowsOf(s, bcq) ELSE ClaimedRowsOf(s)
                   ELSE ClaimedRowsOf(s)
<1>1. bcq \in SUBSET Row /\ rows \subseteq RowsOf(s, bcq) /\ ClaimedRowsOf(s) \subseteq rows
  BY DEF TypeOK, ClaimedRowsOf
<1>2. bcq' = (bcq \ rows) \union {[r EXCEPT !.state = "processed"] : r \in rows}
  BY DEF HaltStep, TermStep, EndStep, MarkProcessed
<1>3. \A r \in Row : LET x == [r EXCEPT !.state = "processed"]
                     IN  /\ x.proc = r.proc /\ x.state = "processed"
                         /\ Claimed(x) = Claimed(r)
  BY DEF Row, Claimed
<1>4. RowsOf(s, bcq) \subseteq bcq /\ \A r \in bcq : r.proc = s /\ Claimed(r) => r \in ClaimedRowsOf(s)
  BY DEF RowsOf, ClaimedRowsOf
<1> HIDE DEF rows
<1>5. \A x \in bcq' : Claimed(x) => ClaimedBefore(x)
  BY <1>1, <1>2, <1>3, <1>4 DEF ClaimedBefore
<1>6. \A x \in bcq' : x.proc = s /\ Claimed(x) => x.state = "processed"
  BY <1>1, <1>2, <1>3, <1>4
<1> QED
  BY <1>5, <1>6

LEMMA HaltJobClaims ==
  ASSUME TypeOK, NEW j \in Jobs, HaltJob(j)
  PROVE  \A x \in bcq' : Claimed(x) =>
           x \in bcq /\ (ParentOf[x.proc] = j => x.state # "processed")
<1>1. \A S, src : \A x \in NewRows(S, src) : ~Claimed(x)
  BY DEF NewRows, NewRow, Claimed
<1>2. PICK output : bcq' = Unconsumed(j) \union NewRows(Downstream(j), output)
  BY DEF HaltJob
<1> QED
  BY <1>1, <1>2 DEF Unconsumed, Consumed, JobRows

LEMMA FileClaims ==
  ASSUME TypeOK, NEW j \in Jobs, BatchEnqueue(j)
  PROVE  \A x \in bcq' : Claimed(x) => x \in bcq
<1>1. \A S, src : \A x \in NewRows(S, src) : ~Claimed(x)
  BY DEF NewRows, NewRow, Claimed
<1> QED
  BY <1>1 DEF BatchEnqueue

\* A job comes to success by haltJob alone.
LEMMA SuccessByHaltJob ==
  ASSUME ExecInv, [Next]_vars, NEW j \in Jobs, LastState(j)' = "success"
  PROVE  LastState(j) = "success" \/ HaltJob(j)
<1>1. TypeOK /\ Jobs \subseteq Processes /\ j \in Processes
  BY DEF ExecInv, Processes
<1>2. CASE execs'[j] = execs[j]
  BY <1>2 DEF LastState
<1>3. ASSUME NEW k \in Jobs, HaltJob(k) \/ TermJob(k) \/ \E maxBatch \in MaxBatchArgs : InitJob(k, maxBatch),
             k # j
      PROVE  execs'[j] = execs[j]
  BY <1>1, <1>3, JobCallAlone
<1>4. ASSUME NEW s \in Subs, InitStep(s) \/ HaltStep(s) \/ TermStep(s)
      PROVE  execs'[j] = execs[j]
  BY <1>1, <1>4, StepCallAlone, ParentFacts
<1>5. ASSUME NEW maxBatch \in MaxBatchArgs, InitJob(j, maxBatch) PROVE FALSE
  <2>1. Starts(j, Len(execs[j]) + 1) /\ Len(execs[j]) + 1 \in Nat
    BY <1>1, <1>5, CallEffects, ExecFacts
  <2> QED
    BY <1>1, <2>1, StartEffect
<1>6. ASSUME TermJob(j) PROVE FALSE
  <2>1. PICK i \in Running(j) : execs' = Finish(j, i, "failed")
    BY <1>6 DEF TermJob
  <2>2. i = Len(execs[j])
    BY <1>1 DEF ExecInv, OneInstance
  <2> QED
    BY <1>1, <2>1, <2>2, EndEffect DEF LastState
<1>7. ASSUME NEW k \in Jobs, BatchEnqueue(k) PROVE execs'[j] = execs[j]
  BY <1>7, CallEffects
<1>8. CASE UNCHANGED vars
  BY <1>2, <1>8 DEF vars
<1> QED
  BY <1>2, <1>3, <1>4, <1>5, <1>6, <1>7, <1>8 DEF Next

\* Every call but initJob of the job itself keeps what is known of the claimed rows
\* of its steps.
LEMMA ClaimsDescend ==
  ASSUME TypeOK, [Next]_vars, NEW x \in bcq', Claimed(x),
         \A maxBatch \in MaxBatchArgs : ~InitJob(ParentOf[x.proc], maxBatch),
         x.proc \in Subs
  PROVE  ClaimedBefore(x)
<1>1. x \in bcq => ClaimedBefore(x)
  BY DEF ClaimedBefore
<1>2. ASSUME NEW j \in Jobs, NEW maxBatch \in MaxBatchArgs, InitJob(j, maxBatch) PROVE x \in bcq
  BY <1>2, InitJobClaims
<1>3. ASSUME NEW j \in Jobs, HaltJob(j) \/ BatchEnqueue(j) PROVE x \in bcq
  BY <1>3, HaltJobClaims, FileClaims
<1>4. ASSUME NEW s \in Subs, HaltStep(s) \/ TermStep(s) PROVE ClaimedBefore(x)
  BY <1>4, EndStepClaims
<1>5. ASSUME NEW j \in Jobs, NEW s \in Subs, TermJob(j) \/ InitStep(s) \/ UNCHANGED vars
      PROVE  x \in bcq
  BY <1>5 DEF TermJob, InitStep, vars
<1>6. \E s \in Subs, j \in Jobs : TRUE
  BY ParentFacts
<1> QED
  BY <1>1, <1>2, <1>3, <1>4, <1>5, <1>6, ParentFacts DEF Next

\* When the two parts survive.
LEMMA ProcessedStays ==
  ASSUME TypeOK, [Next]_vars, DoneProcessed,
         \A s \in Subs : Live(ParentOf[s])' /\ node'[s] = "done" =>
           /\ Live(ParentOf[s]) /\ node[s] = "done"
           /\ \A maxBatch \in MaxBatchArgs : ~InitJob(ParentOf[s], maxBatch)
  PROVE  DoneProcessed'
<1> SUFFICES ASSUME NEW s \in Subs, Live(ParentOf[s])', node'[s] = "done",
                    NEW x \in bcq', x.proc = s, Claimed(x)
             PROVE  x.state = "processed"
  BY DEF DoneProcessed, Claimed
<1>1. ClaimedBefore(x)
  BY ClaimsDescend
<1> QED
  BY <1>1 DEF ClaimedBefore, DoneProcessed

LEMMA LeftStays ==
  ASSUME ExecInv, TypeOK', [Next]_vars, NothingLeftClaimed,
         \A j \in Jobs : HaltJob(j) =>
           \A s \in SubsOf(j) : \A r \in bcq : r.proc = s /\ Claimed(r) => r.state = "processed"
  PROVE  NothingLeftClaimed'
<1>0. TypeOK /\ bcq' \in SUBSET Row /\ bcq \in SUBSET Row
  BY DEF ExecInv, TypeOK
<1> SUFFICES ASSUME NEW j \in Jobs, LastState(j)' = "success",
                    NEW x \in bcq', ParentOf[x.proc] = j, Claimed(x)
             PROVE  FALSE
  BY DEF NothingLeftClaimed, JobRows, Claimed
<1>1. x.proc \in Subs
  BY <1>0 DEF Row
<1>2. CASE HaltJob(j)
  BY <1>0, <1>1, <1>2, HaltJobClaims DEF SubsOf
<1>3. CASE LastState(j) = "success" /\ ~HaltJob(j)
  <2>1. \A maxBatch \in MaxBatchArgs : ~InitJob(j, maxBatch)
    <3> SUFFICES ASSUME NEW maxBatch \in MaxBatchArgs, InitJob(j, maxBatch) PROVE FALSE
      OBVIOUS
    <3>1. /\ Starts(j, Len(execs[j]) + 1) /\ Len(execs[j]) + 1 \in Nat /\ j \in Processes
      BY <1>0, CallEffects, ExecFacts DEF Processes
    <3> QED
      BY <1>0, <3>1, StartEffect
  <2>2. PICK r \in bcq : r.proc = x.proc /\ Claimed(r)
    BY <1>0, <1>1, <2>1, ClaimsDescend DEF ClaimedBefore
  <2> QED
    BY <1>3, <2>2 DEF NothingLeftClaimed, JobRows
<1> QED
  BY <1>2, <1>3, SuccessByHaltJob

\* Only the HaltJob node halts a job.
LEMMA HaltedByItsNode ==
  ASSUME ExecInv, WorkflowNext, NEW k \in Jobs, HaltJob(k)
  PROVE  HaltJobNode(k)
<1>0. TypeOK /\ k \in Processes /\ Jobs \subseteq Processes
  BY DEF ExecInv, Processes
<1>1. PICK i \in Running(k) : execs' = Finish(k, i, "success")
  BY DEF HaltJob
<1>2. i = Len(execs[k])
  BY <1>0 DEF ExecInv, OneInstance
<1>3. LastState(k)' = "success" /\ execs'[k] # execs[k]
  <2>1. execs'[k][i].state = "success" /\ execs'[k] # <<>> /\ Len(execs'[k]) = Len(execs[k])
    BY <1>0, <1>1, EndEffect
  <2>2. execs[k][i].state = "running"
    BY DEF Running
  <2> QED
    BY <1>2, <2>1, <2>2 DEF LastState
<1>4. ~UNCHANGED vars
  BY <1>3 DEF vars
<1>5. ASSUME NEW j \in Jobs, InitJobNode(j) PROVE FALSE
  <2>1. UNCHANGED vars \/ \E maxBatch \in MaxBatchArgs : InitJob(j, maxBatch)
    BY <1>5, InitJobNodeFacts
  <2>2. k = j
    BY <1>0, <1>3, <2>1, JobCallAlone
  <2>3. Starts(k, Len(execs[k]) + 1) /\ Len(execs[k]) + 1 \in Nat
    BY <1>0, <1>4, <2>1, <2>2, CallEffects, ExecFacts
  <2> QED
    BY <1>0, <1>3, <2>3, StartEffect
<1>6. ASSUME NEW j \in Jobs, TermJobNode(j) PROVE FALSE
  <2>1. UNCHANGED vars \/ TermJob(j)
    BY <1>6, TermJobNodeFacts
  <2>2. k = j
    BY <1>0, <1>3, <2>1, JobCallAlone
  <2>3. PICK l \in Running(k) : execs' = Finish(k, l, "failed")
    BY <1>4, <2>1, <2>2 DEF TermJob
  <2>4. l = Len(execs[k])
    BY <1>0 DEF ExecInv, OneInstance
  <2> QED
    BY <1>0, <1>3, <2>3, <2>4, EndEffect DEF LastState
<1>7. ASSUME NEW s \in Subs, InitStepNode(s) \/ HaltStepNode(s) \/ TermStepNode(s) PROVE FALSE
  <2>1. UNCHANGED vars \/ InitStep(s) \/ HaltStep(s) \/ TermStep(s)
    BY <1>7, InitStepNodeFacts, HaltStepNodeFacts, TermStepNodeFacts
  <2> QED
    BY <1>0, <1>3, <2>1, StepCallAlone, ParentFacts
<1>8. ASSUME NEW s \in Subs, ActionNode(s) PROVE FALSE
  BY <1>4, <1>8 DEF ActionNode
<1>9. ASSUME NEW j \in Jobs, File(j) PROVE FALSE
  BY <1>3, <1>9, FileFacts
<1>10. ASSUME NEW j \in Jobs, HaltJobNode(j) PROVE k = j
  <2>1. UNCHANGED vars \/ HaltJob(j)
    BY <1>10, HaltJobNodeFacts
  <2> QED
    BY <1>0, <1>3, <2>1, JobCallAlone
<1> QED
  BY <1>5, <1>6, <1>7, <1>8, <1>9, <1>10 DEF WorkflowNext, Engine, SubsOf

\* When it does, the steps have processed every row claimed for them.
LEMMA HaltedProcessed ==
  ASSUME ExecInv, DoneProcessed, WorkflowNext, NEW j \in Jobs, HaltJob(j), NEW s \in SubsOf(j),
         NEW r \in bcq, r.proc = s, Claimed(r)
  PROVE  r.state = "processed"
<1>1. Live(j) /\ node[s] = "done" /\ s \in Subs /\ ParentOf[s] = j
  BY HaltedByItsNode, HaltJobNodeFacts DEF SubsOf
<1> QED
  BY <1>1 DEF DoneProcessed

LEMMA LeftStep ==
  ASSUME ExecInv, TypeOK', FlowTypes, LeftInv, [WorkflowNext]_allVars
  PROVE  LeftInv'
<1>0. TypeOK /\ DoneProcessed /\ NothingLeftClaimed /\ [Next]_vars
  BY WorkflowMakesCalls DEF ExecInv, LeftInv
<1>1. CASE UNCHANGED allVars
  BY <1>0, <1>1 DEF LeftInv, allVars, DoneProcessed, NothingLeftClaimed, Live, LastState,
                    JobRows, Claimed
<1>2. ASSUME WorkflowNext PROVE NothingLeftClaimed'
  BY <1>0, <1>2, HaltedProcessed, LeftStays
\* initJob is called by its node alone, when no workflow of the job is on.
<1>3. ASSUME WorkflowNext, NEW j \in Jobs, Live(j), NEW maxBatch \in MaxBatchArgs,
             InitJob(j, maxBatch)
      PROVE  FALSE
  <2>0. j \in Processes /\ Jobs \subseteq Processes /\ Len(execs[j]) + 1 \in Nat
    BY <1>0, ExecFacts DEF Processes
  <2>1. /\ Len(execs'[j]) = Len(execs[j]) + 1 /\ Len(execs[j]) \in Nat
        /\ LastState(j)' = "running"
    <3>1. Starts(j, Len(execs[j]) + 1)
      BY <1>3, CallEffects
    <3>2. Len(execs[j]) \in Nat
      BY <1>0, <2>0, ExecFacts
    <3> QED
      BY <1>0, <2>0, <3>1, <3>2, StartEffect
  <2>2. execs'[j] # execs[j] /\ ~UNCHANGED vars
    BY <2>1 DEF vars
  <2>3. ASSUME NEW k \in Jobs, InitJobNode(k) PROVE FALSE
    <3>1. UNCHANGED vars \/ \E m \in MaxBatchArgs : InitJob(k, m)
      BY <2>3, InitJobNodeFacts
    <3>2. k = j
      BY <1>0, <2>0, <2>2, <3>1, JobCallAlone
    <3> QED
      BY <1>3, <2>3, <3>2, InitJobNodeFacts
  <2>4. ASSUME NEW k \in Jobs, HaltJobNode(k) \/ TermJobNode(k) PROVE FALSE
    <3>1. HaltJob(k) \/ TermJob(k)
      BY <2>2, <2>4, HaltJobNodeFacts, TermJobNodeFacts
    <3>2. k = j
      BY <1>0, <2>0, <2>2, <3>1, JobCallAlone
    <3>3. PICK i \in Running(j), st \in {"success", "failed"} : execs' = Finish(j, i, st)
      BY <3>1, <3>2 DEF HaltJob, TermJob
    <3>4. Len(execs'[j]) = Len(execs[j])
      BY <1>0, <2>0, <3>3, EndEffect
    <3> QED
      BY <2>1, <3>4
  <2>5. ASSUME NEW s \in Subs, InitStepNode(s) \/ HaltStepNode(s) \/ TermStepNode(s) PROVE FALSE
    <3>1. UNCHANGED vars \/ InitStep(s) \/ HaltStep(s) \/ TermStep(s)
      BY <2>5, InitStepNodeFacts, HaltStepNodeFacts, TermStepNodeFacts
    <3> QED
      BY <1>0, <2>0, <2>2, <3>1, StepCallAlone, ParentFacts
  <2>6. ASSUME NEW s \in Subs, ActionNode(s) PROVE FALSE
    BY <2>2, <2>6 DEF ActionNode
  <2>7. ASSUME NEW k \in Jobs, File(k) PROVE FALSE
    BY <2>2, <2>7, FileFacts
  <2> QED
    BY <1>3, <2>3, <2>4, <2>5, <2>6, <2>7 DEF WorkflowNext, Engine, SubsOf
<1>4. ASSUME WorkflowNext, ~(\E s \in Subs : HaltStepNode(s)), ~(\E j \in Jobs : InitJobNode(j))
      PROVE  DoneProcessed'
  <2>1. \A s \in Subs : Live(ParentOf[s])' /\ node'[s] = "done" =>
          Live(ParentOf[s]) /\ node[s] = "done"
    <3>1. ASSUME NEW j \in Jobs, HaltJobNode(j) \/ TermJobNode(j)
          PROVE  UNCHANGED node /\ \A k \in Jobs : Live(k)' => Live(k)
      BY <3>1, HaltJobNodeFacts, TermJobNodeFacts DEF Goto, Live, FlowTypes, TermJobNode
    <3>2. ASSUME NEW t \in Subs, InitStepNode(t) \/ TermStepNode(t)
          PROVE  \A s \in Subs : Live(ParentOf[s])' /\ node'[s] = "done" =>
                   Live(ParentOf[s]) /\ node[s] = "done"
      BY <3>2, InitStepNodeFacts, TermStepNodeFacts, ParentFacts
         DEF Reach, Abandon, Live, FlowTypes, TermStepNode
    <3>3. ASSUME NEW t \in Subs, ActionNode(t)
          PROVE  \A s \in Subs : Live(ParentOf[s])' /\ node'[s] = "done" =>
                   Live(ParentOf[s]) /\ node[s] = "done"
      BY <3>3 DEF ActionNode, Reach, Live, FlowTypes
    <3>4. ASSUME NEW j \in Jobs, File(j) PROVE UNCHANGED <<wf, node>>
      BY <3>4, FileFacts
    <3> QED
      BY <1>4, <3>1, <3>2, <3>3, <3>4, ParentFacts DEF WorkflowNext, Engine, SubsOf, Live
  <2> QED
    BY <1>0, <1>3, <1>4, <2>1, ProcessedStays, ParentFacts
<1>5. ASSUME NEW s \in Subs, HaltStepNode(s), WorkflowNext PROVE DoneProcessed'
  <2> SUFFICES ASSUME NEW t \in Subs, Live(ParentOf[t])', node'[t] = "done",
                      NEW x \in bcq', x.proc = t, Claimed(x)
               PROVE  x.state = "processed"
    BY DEF DoneProcessed, Claimed
  <2>1. /\ UNCHANGED wf
        /\ (t = s /\ HaltStep(s)) \/ node[t] = "done"
    BY <1>5, HaltStepNodeFacts DEF Reach, FlowTypes
  <2>2. CASE t = s /\ HaltStep(s)
    BY <1>0, <2>2, EndStepClaims
  <2>3. CASE node[t] = "done"
    <3>1. Live(ParentOf[t]) /\ ParentOf[t] \in Jobs
      BY <2>1, ParentFacts DEF Live
    <3>2. ClaimedBefore(x)
      BY <1>0, <1>3, <1>5, <3>1, ClaimsDescend
    <3> QED
      BY <1>0, <2>3, <3>1, <3>2 DEF ClaimedBefore, DoneProcessed
  <2> QED
    BY <2>1, <2>2, <2>3
<1>6. ASSUME NEW j \in Jobs, InitJobNode(j), WorkflowNext PROVE DoneProcessed'
  <2> SUFFICES ASSUME NEW s \in Subs, Live(ParentOf[s])', node'[s] = "done",
                      NEW x \in bcq', x.proc = s, Claimed(x)
               PROVE  x.state = "processed"
    BY DEF DoneProcessed, Claimed
  <2>1. ParentOf[s] \in Jobs /\ ParentOf[s] # j /\ Live(ParentOf[s]) /\ node[s] = "done"
    BY <1>6, InitJobNodeFacts, ParentFacts DEF Begin, Goto, Live, FlowTypes
  <2>2. ClaimedBefore(x)
    BY <1>0, <1>3, <1>6, <2>1, ClaimsDescend
  <2> QED
    BY <1>0, <2>1, <2>2 DEF ClaimedBefore, DoneProcessed
<1> QED
  BY <1>1, <1>2, <1>4, <1>5, <1>6 DEF LeftInv

LEMMA LeftKept == WorkflowSpec => []LeftInv
<1>1. WorkflowInit => LeftInv
  BY DEF WorkflowInit, Init, LeftInv, DoneProcessed, NothingLeftClaimed, JobRows
<1>2. ExecInv /\ ExecInv' /\ FlowInv /\ LeftInv /\ [WorkflowNext]_allVars => LeftInv'
  BY LeftStep DEF ExecInv, FlowInv
<1> QED
  BY <1>1, <1>2, FlowKept, WorkflowsAreNested, PTL DEF WorkflowSpec

\* A run that succeeded leaves no claimed row behind, which the next run would take
\* for the rest of a failed one and deliver a second time.
THEOREM NothingLeft == WorkflowSpec => []NothingLeftClaimed
<1>1. LeftInv => NothingLeftClaimed
  BY DEF LeftInv
<1> QED
  BY <1>1, LeftKept, PTL

-----------------------------------------------------------------------------
(***************************************************************************)
(* What is delivered.  A batch that is a source of some row and belongs to *)
(* a run was handed on when that run succeeded; with nothing left claimed  *)
(* then, no later run takes it over, and none hands it on again.           *)
(***************************************************************************)
Delivered(r) == r.src \in DOMAIN batches /\ batches[r.src] # NoRun
FromSuccess(r) ==
  LET b == batches[r.src]
  IN  b.job \in Jobs /\ b.run \in DOMAIN execs[b.job] /\ execs[b.job][b.run].state = "success"
OutputInv ==
  /\ \A r \in bcq \union archive : Delivered(r) => FromSuccess(r)
  /\ DeliveredOnce

\* A batch claimed rows aim at belongs to the latest run of their job.
LEMMA OutputRun ==
  ASSUME RunOwnsBatch, NEW j \in Jobs, NEW src \in OutputBatches(j), src # NoBatch
  PROVE  src \in DOMAIN batches /\ batches[src] = [job |-> j, run |-> Len(execs[j])]
<1>1. PICK r \in bcq : r.proc \in SubsOf(j) /\ r.tgt = src
  BY DEF OutputBatches, Oldest, RowsOf
<1>2. Claimed(r) /\ ParentOf[r.proc] = j
  BY <1>1 DEF Claimed, SubsOf
<1> QED
  BY <1>1, <1>2 DEF RunOwnsBatch

\* New rows that deliver a batch are those haltJob makes, of the run it completes.
LEMMA NewDeliveries ==
  ASSUME BatchInv, BatchInv', [Next]_vars, NEW x \in bcq' \union archive'
  PROVE  \/ \E y \in bcq \union archive : Descends(x, y)
         \/ x.src \notin DOMAIN batches' \/ batches'[x.src] = NoRun
         \/ \E j \in Jobs : /\ HaltJob(j)
                            /\ x.src \in DOMAIN batches
                            /\ batches[x.src] = [job |-> j, run |-> Len(execs[j])]
                            /\ x \in NewRows(Downstream(j), x.src)
<1> DEFINE Known == \E y \in bcq \union archive : Descends(x, y)
<1>0. /\ OrderInv /\ RunOwnsBatch /\ TypeOK /\ TypeOK' /\ IdsInv /\ IdsInv' /\ x \in Row
      /\ lastId \in [Subs -> Nat]
  BY DEF BatchInv, OrderInv, IdsInv, TypeOK
<1>1. SUFFICES ASSUME ~Known, Fresh(x)
               PROVE  \/ x.src \notin DOMAIN batches' \/ batches'[x.src] = NoRun
                      \/ \E j \in Jobs : /\ HaltJob(j)
                                         /\ x.src \in DOMAIN batches
                                         /\ batches[x.src] = [job |-> j, run |-> Len(execs[j])]
                                         /\ x \in NewRows(Downstream(j), x.src)
  BY <1>0, Descent
<1>2. x \notin bcq \union archive
  BY <1>1 DEF Descends, SameRow
<1>3. lastId'[x.proc] # lastId[x.proc]
  <2>1. x.id = lastId[x.proc] + 1 /\ x.id <= lastId'[x.proc]
    BY <1>0, <1>1 DEF Fresh, IdsInv, IdsKept
  <2>2. lastId[x.proc] \in Nat
    BY <1>0 DEF Row
  <2> QED
    BY <2>1, <2>2
<1>4. 0 \notin DOMAIN batches'
  BY <1>0 DEF TypeOK
<1>5. ASSUME NEW j \in Jobs, NEW maxBatch \in MaxBatchArgs, InitJob(j, maxBatch)
      PROVE  x.src \notin DOMAIN batches'
  <2>1. lastId' = CountIds(Seeds(j))
    BY <1>3, <1>5 DEF InitJob, FreshRun, Rerun
  <2>2. x.proc \in Seeds(j)
    BY <1>0, <1>3, <2>1 DEF CountIds, Row
  <2>3. EnqueuingProcess[x.proc] = NoProcess
    BY <2>2 DEF Seeds
  <2> QED
    BY <1>1, <1>4, <2>3 DEF Fresh, Sourced, InitialBatch
<1>6. ASSUME NEW j \in Jobs, BatchEnqueue(j) PROVE batches'[x.src] = NoRun
  <2>1. PICK src \in Nat :
          /\ src \in DOMAIN batches' /\ batches'[src] = NoRun
          /\ bcq' = bcq \union NewRows(Downstream(j), src) /\ archive' = archive
    BY <1>0, <1>6, FileEffect
  <2>2. x \in NewRows(Downstream(j), src)
    BY <1>2, <2>1
  <2> QED
    BY <2>1, <2>2, NewRowHas
<1>7. ASSUME NEW j \in Jobs, HaltJob(j)
      PROVE  /\ x.src \in DOMAIN batches
             /\ batches[x.src] = [job |-> j, run |-> Len(execs[j])]
             /\ x \in NewRows(Downstream(j), x.src)
  <2>1. PICK src \in Nat :
          /\ Downstream(j) # {} => src \in OutputBatches(j) \ {NoBatch}
          /\ bcq' = (bcq \ Consumed(j)) \union NewRows(Downstream(j), src)
          /\ archive' = archive \union Consumed(j)
    BY <1>0, <1>7, HaltEffect
  <2>2. x \in NewRows(Downstream(j), src)
    BY <1>2, <2>1 DEF Consumed, JobRows
  <2>3. x.proc \in Downstream(j) /\ x.src = src
    BY <2>2, NewRowHas
  <2> QED
    BY <1>0, <2>1, <2>2, <2>3, OutputRun
<1>8. ASSUME UNCHANGED lastId PROVE FALSE
  BY <1>3, <1>8
<1> QED
  BY <1>5, <1>6, <1>7, <1>8 DEF Next, vars, TermJob, InitStep, HaltStep, TermStep, EndStep

\* A batch that was delivered stays with the run that delivered it.
LEMMA DeliveredStay ==
  ASSUME BatchInv, [Next]_vars, NothingLeftClaimed, NEW y \in bcq \union archive,
         Delivered(y), FromSuccess(y)
  PROVE  batches'[y.src] = batches[y.src]
<1>0. RunOwnsBatch /\ TypeOK /\ batches \in Seq(Run)
  BY DEF BatchInv, OrderInv, IdsInv, TypeOK
<1>1. SUFFICES ASSUME NEW j \in Jobs, Rerun(j), OldestClaimed(j),
                    batches'[y.src] # batches[y.src]
             PROVE  FALSE
  <2>1. ASSUME NEW run, batches' = Append(batches, run) PROVE batches'[y.src] = batches[y.src]
    BY <1>0, <2>1 DEF Delivered
  <2>2. ASSUME NEW j \in Jobs, BatchEnqueue(j) PROVE batches'[y.src] = batches[y.src]
    BY <2>1, <2>2 DEF BatchEnqueue
  <2>3. ASSUME NEW j \in Jobs, NEW maxBatch \in MaxBatchArgs, InitJob(j, maxBatch)
        PROVE  batches'[y.src] = batches[y.src] \/ (Rerun(j) /\ OldestClaimed(j))
    BY <2>1, <2>3 DEF InitJob, AcceptsInitJob, CanClaim, FreshRun, Rerun
  <2> QED
    BY <1>1, <2>2, <2>3 DEF Next, vars, HaltJob, TermJob, InitStep, HaltStep, TermStep, EndStep
<1>2. PICK s \in SubsOf(j) : \E r \in Oldest(RowsOf(s, bcq)) : y.src = r.tgt
  BY <1>1 DEF Rerun, TakeOver, Delivered
<1>3. PICK r \in bcq : y.src = r.tgt /\ Claimed(r) /\ r.proc = s /\ ParentOf[s] = j
  BY <1>1, <1>2 DEF OldestClaimed, Oldest, RowsOf, SubsOf
<1>4. batches[y.src] = [job |-> j, run |-> Len(execs[j])]
  BY <1>0, <1>3 DEF RunOwnsBatch
<1>5. Len(execs[j]) \in DOMAIN execs[j] /\ execs[j][Len(execs[j])].state = "success"
  BY <1>4 DEF FromSuccess
<1>6. LastState(j) = "success"
  BY <1>5 DEF LastState
<1> QED
  BY <1>3, <1>6 DEF NothingLeftClaimed, JobRows

\* Which run delivered a row is settled for good, and was settled if the row is old.
LEMMA StillDelivered ==
  ASSUME BatchInv, OutputInv, NothingLeftClaimed, [Next]_vars, NEW y \in bcq \union archive,
         y.src \in DOMAIN batches', batches'[y.src] # NoRun
  PROVE  Delivered(y) /\ FromSuccess(y) /\ batches'[y.src] = batches[y.src]
<1>0. RunOwnsBatch /\ TypeOK /\ Provenance
  BY DEF BatchInv, OrderInv, IdsInv
<1>1. y.src \in DOMAIN batches
  <2>1. y.src \in DOMAIN batches \/ y.src = 0
    BY <1>0 DEF Provenance, InitialBatch
  <2>2. batches \in Seq(Run)
    BY <1>0 DEF TypeOK
  <2>3. 0 \notin DOMAIN batches'
    <3>1. ASSUME NEW run, batches' = Append(batches, run) PROVE 0 \notin DOMAIN batches'
      BY <2>2, <3>1
    <3>2. ASSUME NEW j \in Jobs, Rerun(j) PROVE 0 \notin DOMAIN batches'
      BY <2>2, <3>2 DEF Rerun, TakeOver
    <3>3. ASSUME NEW j \in Jobs, NEW maxBatch \in MaxBatchArgs, InitJob(j, maxBatch)
          PROVE  0 \notin DOMAIN batches'
      BY <3>1, <3>2, <3>3 DEF InitJob, FreshRun
    <3>4. CASE UNCHANGED batches
      BY <2>2, <3>4
    <3>5. ASSUME NEW j \in Jobs, BatchEnqueue(j) PROVE 0 \notin DOMAIN batches'
      BY <3>1, <3>4, <3>5 DEF BatchEnqueue
    <3> QED
      BY <3>3, <3>4, <3>5
         DEF Next, vars, HaltJob, TermJob, InitStep, HaltStep, TermStep, EndStep
  <2> QED
    BY <2>1, <2>3
<1>2. batches[y.src] # NoRun
  BY <1>0, <1>1, BatchesKept
<1>3. Delivered(y) /\ FromSuccess(y)
  BY <1>1, <1>2 DEF Delivered, OutputInv
<1> QED
  BY <1>3, DeliveredStay

\* A run that is being halted has delivered nothing yet.
LEMMA NotYetDelivered ==
  ASSUME ExecInv, OutputInv, NEW j \in Jobs, HaltJob(j), NEW y \in bcq \union archive,
         y.src \in DOMAIN batches, batches[y.src] = [job |-> j, run |-> Len(execs[j])]
  PROVE  FALSE
<1>1. batches[y.src] # NoRun
  BY CatalogueAssumption DEF NoRun, NoProcess
<1>2. execs[j][Len(execs[j])].state = "success"
  BY <1>1 DEF OutputInv, Delivered, FromSuccess
<1>3. PICK i \in Running(j) : TRUE
  BY DEF HaltJob
<1>4. i = Len(execs[j]) /\ execs[j][i].state = "running"
  BY DEF ExecInv, OneInstance, Running, Processes
<1> QED
  BY <1>2, <1>4

LEMMA OutputStep ==
  ASSUME ExecInv, BatchInv, BatchInv', NothingLeftClaimed, OutputInv, [Next]_vars
  PROVE  OutputInv'
<1>0. TypeOK
  BY DEF ExecInv
<1> DEFINE Known(x) == \E y \in bcq \union archive : Descends(x, y)
           New(x, j) == /\ HaltJob(j)
                        /\ x.src \in DOMAIN batches
                        /\ batches[x.src] = [job |-> j, run |-> Len(execs[j])]
                        /\ x \in NewRows(Downstream(j), x.src)
<1>1. ASSUME NEW x \in bcq' \union archive', x.src \in DOMAIN batches', batches'[x.src] # NoRun
      PROVE  Known(x) \/ \E j \in Jobs : New(x, j)
  BY <1>1, NewDeliveries
<1>2. ASSUME NEW x \in bcq' \union archive', x.src \in DOMAIN batches', batches'[x.src] # NoRun
      PROVE  LET b == batches'[x.src]
             IN  /\ b.job \in Jobs /\ b.run \in DOMAIN execs'[b.job]
                 /\ execs'[b.job][b.run].state = "success"
  <2>1. CASE Known(x)
    <3>1. PICK y \in bcq \union archive : y.src = x.src
      BY <2>1 DEF Descends
    <3>2. FromSuccess(y) /\ batches'[x.src] = batches[y.src]
      BY <1>2, <3>1, StillDelivered
    <3> DEFINE b == batches[y.src]
    <3>3. b.job \in Jobs /\ b.run \in DOMAIN execs[b.job] /\ execs[b.job][b.run].state = "success"
      BY <3>2 DEF FromSuccess
    <3> HIDE DEF b
    <3>4. b.run \notin Running(b.job) /\ b.job \in Processes
      BY <3>3 DEF Running, Processes
    <3>5. b.run \in DOMAIN execs'[b.job] /\ execs'[b.job][b.run] = execs[b.job][b.run]
      BY <1>0, <3>3, <3>4, SuccessStays
    <3> QED
      BY <3>2, <3>3, <3>5 DEF b
  <2>2. ASSUME NEW j \in Jobs, New(x, j)
        PROVE  LET b == batches'[x.src]
               IN  /\ b.job \in Jobs /\ b.run \in DOMAIN execs'[b.job]
                   /\ execs'[b.job][b.run].state = "success"
    <3>1. PICK i \in Running(j) : execs' = Finish(j, i, "success")
      BY <2>2 DEF HaltJob
    <3>2. j \in Processes /\ i = Len(execs[j]) /\ i \in DOMAIN execs[j]
      BY DEF ExecInv, OneInstance, Running, Processes
    <3>3. i \in DOMAIN execs'[j] /\ execs'[j][i].state = "success"
      BY <1>0, <3>1, <3>2, EndEffect
    <3>4. batches'[x.src] = [job |-> j, run |-> Len(execs[j])]
      BY <2>2 DEF HaltJob
    <3> QED
      BY <3>2, <3>3, <3>4
  <2> QED
    BY <1>1, <1>2, <2>1, <2>2
<1>3. ASSUME NEW r \in bcq' \union archive', NEW x \in bcq' \union archive',
             r.proc = x.proc, r.src = x.src, r.src \in DOMAIN batches', r.id # x.id,
             batches'[r.src] # NoRun
      PROVE  FALSE
  <2>1. CASE Known(r) /\ Known(x)
    <3>1. PICK y \in bcq \union archive : Descends(r, y)
      BY <2>1
    <3>2. PICK z \in bcq \union archive : Descends(x, z)
      BY <2>1
    <3>3. Delivered(y)
      BY <1>3, <3>1, StillDelivered DEF Descends
    <3>4. y.proc = z.proc /\ y.src = z.src /\ y.id # z.id
      BY <1>3, <3>1, <3>2 DEF Descends, SameRow
    <3> QED
      BY <3>3, <3>4 DEF OutputInv, DeliveredOnce, Delivered
  <2>2. ASSUME NEW u, NEW v, u.src = v.src, Known(u), NEW j \in Jobs, New(v, j) PROVE FALSE
    <3>1. PICK y \in bcq \union archive : y.src = u.src
      BY <2>2 DEF Descends
    <3> QED
      BY <2>2, <3>1, NotYetDelivered
  <2>3. ASSUME NEW j \in Jobs, New(r, j), NEW k \in Jobs, New(x, k) PROVE FALSE
    <3>1. r = NewRow(r.proc, r.src) /\ x = NewRow(x.proc, x.src)
      BY <2>3, NewRowHas
    <3> QED
      BY <1>3, <3>1
  <2>4. (Known(r) \/ \E j \in Jobs : New(r, j)) /\ (Known(x) \/ \E j \in Jobs : New(x, j))
    BY <1>1, <1>3
  <2> HIDE DEF Known, New
  <2> QED
    BY <1>3, <2>1, <2>2, <2>3, <2>4
<1>4. DeliveredOnce'
  BY <1>3 DEF DeliveredOnce
<1>5. (\A r \in bcq \union archive : Delivered(r) => FromSuccess(r))'
  BY <1>2 DEF Delivered, FromSuccess
<1> QED
  BY <1>4, <1>5 DEF OutputInv

\* Whatever runs failed and were repeated, the batch of a run reaches each step
\* downstream once, and only when the run succeeded.
THEOREM DeliveredOnceOfSuccess == WorkflowSpec => [](DeliveredOnce /\ OutputOfSuccess)
<1>1. WorkflowInit => Init /\ OutputInv
  BY DEF WorkflowInit, Init, OutputInv, DeliveredOnce
<1>2. WorkflowSpec => Spec
  BY <1>1, WorkflowMakesCalls, PTL DEF WorkflowSpec, Spec
<1>3. ExecInv /\ BatchInv /\ BatchInv' /\ NothingLeftClaimed /\ OutputInv /\ [Next]_vars => OutputInv'
  BY OutputStep
<1>4. OutputInv => DeliveredOnce /\ OutputOfSuccess
  BY DEF OutputInv, Delivered, FromSuccess, OutputOfSuccess
<1> QED
  BY <1>1, <1>2, <1>3, <1>4, NothingLeft, WorkflowsAreNested, BatchInvariant, PTL
     DEF Spec, WorkflowSpec

-----------------------------------------------------------------------------
(***************************************************************************)
(* A failed run can be repeated.  A fresh run claims rows for every step   *)
(* that another job feeds, or for every step of a job nothing feeds; the   *)
(* rows stay claimed through failures and leave the queue together.  As    *)
(* rows are claimed from the front, the oldest row of a step has a target  *)
(* whenever any of its job has.                                            *)
(***************************************************************************)
Fed(s) == EnqueuingProcess[s] # NoProcess
AnyClaimed(s) == \E r \in bcq : r.proc = s /\ Claimed(r)
AllClaimed ==
  \A s, t \in Subs :
    ParentOf[s] = ParentOf[t] /\ Fed(t) /\ AnyClaimed(s) => AnyClaimed(t)
\* A job feeds itself only when no other job feeds any of its steps.
SelfFed ==
  \A r \in bcq : \A t \in Subs :
    ~Fed(r.proc) /\ ParentOf[t] = ParentOf[r.proc] => ~Fed(t)
WedgeInv == AllClaimed /\ SelfFed

LEMMA RowsOfFinite ==
  ASSUME IdsInv, NEW s \in Subs
  PROVE  IsFiniteSet(RowsOf(s, bcq))
<1>1. RowsOf(s, bcq) \in SUBSET Row
  BY DEF IdsInv, TypeOK, RowsOf
<1>2. /\ \A r \in RowsOf(s, bcq) : r.proc = s /\ r.id <= lastId[s]
      /\ \A r, x \in RowsOf(s, bcq) : SameRow(r, x) => r = x
  BY DEF RowsOf, IdsInv, IdsKept, NoTwins
<1>3. lastId[s] \in Nat
  BY DEF IdsInv, TypeOK
<1> QED
  BY <1>1, <1>2, <1>3, RowsAreFinite

\* The count of initJob finds rows for every step that is fed.
LEMMA EveryFedQueued ==
  ASSUME IdsInv, SelfFed, NEW j \in Jobs, HasBatches(j), NEW t \in SubsOf(j), Fed(t)
  PROVE  RowsOf(t, bcq) # {}
<1> DEFINE queued    == {s \in SubsOf(j) : RowsOf(s, bcq) # {}}
           consuming == {s \in SubsOf(j) : EnqueuingProcess[s] # NoProcess}
<1>1. IsFiniteSet(consuming) /\ t \in consuming
  <2>1. consuming \subseteq Subs /\ IsFiniteSet(Subs)
    BY SubsOfFacts, CatalogueAssumption
  <2> QED
    BY <2>1, FS_Subset DEF Fed
<1>2. queued \subseteq consuming
  <2> SUFFICES ASSUME NEW s \in SubsOf(j), RowsOf(s, bcq) # {} PROVE Fed(s)
    BY DEF Fed
  <2>1. PICK r \in bcq : r.proc = s
    BY DEF RowsOf
  <2> QED
    BY <2>1 DEF SelfFed, SubsOf
<1>3. Cardinality(queued) >= Cardinality(consuming)
  BY DEF HasBatches
<1> HIDE DEF queued, consuming
<1>4. queued = consuming
  <2>1. IsFiniteSet(queued) /\ Cardinality(queued) \in Nat /\ Cardinality(consuming) \in Nat
    BY <1>1, <1>2, FS_Subset, FS_CardinalityType
  <2>2. /\ Cardinality(queued) <= Cardinality(consuming)
        /\ Cardinality(consuming) = Cardinality(queued) => consuming = queued
    BY <1>1, <1>2, FS_Subset
  <2> QED
    BY <1>3, <2>1, <2>2
<1> QED
  BY <1>1, <1>4 DEF queued

\* The calls that move no row into or out of a step's claimed rows.
LEMMA ClaimsUnmoved ==
  ASSUME WedgeInv,
         \A r \in bcq' : \E x \in bcq : r.proc = x.proc /\ r.tgt = x.tgt,
         \A x \in bcq : \E r \in bcq' : r.proc = x.proc /\ r.tgt = x.tgt
  PROVE  WedgeInv'
<1>1. \A s : AnyClaimed(s)' <=> AnyClaimed(s)
  BY DEF AnyClaimed, Claimed
<1>2. AllClaimed'
  BY <1>1 DEF WedgeInv, AllClaimed, Fed
<1>3. SelfFed'
  BY DEF WedgeInv, SelfFed, Fed
<1> QED
  BY <1>2, <1>3 DEF WedgeInv

\* New rows for steps that are fed, beside rows that stay.
LEMMA FedRowsArrive ==
  ASSUME TypeOK, WedgeInv, NEW j \in Jobs, NEW moved \in SUBSET bcq, NEW src,
         bcq' = (bcq \ moved) \union NewRows(Downstream(j), src),
         \A r \in moved : \A x \in bcq :
           ParentOf[x.proc] = ParentOf[r.proc] /\ Claimed(x) => x \in moved
  PROVE  WedgeInv'
<1>1. /\ bcq \in SUBSET Row /\ \A x \in bcq : x.proc \in Subs
      /\ \A x \in NewRows(Downstream(j), src) : x.proc \in Subs /\ Fed(x.proc) /\ ~Claimed(x)
  BY NewRowHas, SubsOfFacts, CatalogueAssumption DEF TypeOK, Row, Downstream, Fed, NoProcess
<1>2. \A s : AnyClaimed(s)' <=> \E r \in bcq \ moved : r.proc = s /\ Claimed(r)
  BY <1>1 DEF AnyClaimed, Claimed
<1>3. AllClaimed'
  <2> SUFFICES ASSUME NEW s \in Subs, NEW t \in Subs, ParentOf[s] = ParentOf[t], Fed(t),
                      AnyClaimed(s)'
               PROVE  AnyClaimed(t)'
    BY DEF AllClaimed, Fed
  <2>1. PICK r \in bcq \ moved : r.proc = s /\ Claimed(r)
    BY <1>2
  <2>2. PICK x \in bcq : x.proc = t /\ Claimed(x)
    BY <2>1 DEF WedgeInv, AllClaimed, AnyClaimed
  <2>3. x \notin moved
    BY <2>1, <2>2
  <2> QED
    BY <1>2, <2>2, <2>3
<1>4. SelfFed'
  BY <1>1 DEF WedgeInv, SelfFed, Fed
<1> QED
  BY <1>3, <1>4 DEF WedgeInv

LEMMA FreshWedge ==
  ASSUME OrderInv, WedgeInv, NEW j \in Jobs, NEW maxBatch \in MaxBatchArgs,
         HasBatches(j), FreshRun(j, maxBatch)
  PROVE  WedgeInv'
<1>0. /\ IdsInv /\ TypeOK /\ AllClaimed /\ SelfFed
      /\ bcq \in SUBSET Row /\ Len(batches) + 1 \in Nat
  BY DEF OrderInv, WedgeInv, IdsInv, TypeOK
<1> DEFINE queue == SeededQueue(j)
           rows  == TakenRows(j, maxBatch)
           batch == Len(batches) + 1
<1>1. /\ queue \in SUBSET Row
      /\ bcq' = Claims(queue, rows, batch)
      /\ rows \subseteq {r \in queue : ParentOf[r.proc] = j}
      /\ \A x \in queue : ParentOf[x.proc] = j => \E r \in rows : r.proc = x.proc
  BY <1>0, FreshEffect
\* The rows a job gives itself, when no step of it is fed.
<1>2. /\ bcq \subseteq queue
      /\ \A x \in queue \ bcq : /\ x.proc \in SubsOf(j) /\ ~Claimed(x)
                               /\ \A t \in SubsOf(j) : ~Fed(t)
  <2>1. queue = bcq \union NewRows(Seeds(j), InitialBatch)
    BY DEF SeededQueue
  <2>2. \A x \in NewRows(Seeds(j), InitialBatch) : x.proc \in Seeds(j) /\ ~Claimed(x)
    BY NewRowHas
  <2>3. \A s \in Seeds(j) : s \in SubsOf(j) /\ \A t \in SubsOf(j) : ~Fed(t)
    BY DEF Seeds, Fed
  <2> HIDE DEF queue
  <2> QED
    BY <2>1, <2>2, <2>3
<1>3. rows \in SUBSET queue
  BY <1>1
<1> HIDE DEF queue, rows, batch
<1>4. /\ \A r \in bcq' :
           \/ r \in queue \ rows
           \/ \E x \in rows : SameRow(r, x) /\ Claimed(r)
      /\ \A x \in queue \ rows : x \in bcq'
      /\ \A x \in rows : \E r \in bcq' : SameRow(r, x) /\ Claimed(r)
  BY <1>0, <1>1, <1>3, ClaimFacts DEF batch
\* Nothing of the job was claimed, and now every step of it with a row has one claimed.
<1>5. \A x \in bcq : ParentOf[x.proc] = j => ~Claimed(x)
  BY DEF FreshRun, IsRerun, JobRows
<1>6. AllClaimed'
  <2> SUFFICES ASSUME NEW s \in Subs, NEW t \in Subs, ParentOf[s] = ParentOf[t], Fed(t),
                      NEW r \in bcq', r.proc = s, Claimed(r)
               PROVE  \E x \in bcq' : x.proc = t /\ Claimed(x)
    BY DEF AllClaimed, Fed, AnyClaimed, Claimed
  <2>1. CASE ParentOf[t] = j
    <3>1. t \in SubsOf(j)
      BY <2>1 DEF SubsOf
    <3>2. PICK x \in bcq : x.proc = t
      BY <1>0, <3>1, EveryFedQueued DEF RowsOf
    <3>3. PICK y \in rows : y.proc = t
      BY <1>1, <1>2, <2>1, <3>2
    <3> QED
      BY <1>4, <3>3 DEF SameRow
  <2>2. CASE ParentOf[t] # j
    <3>1. r \in queue
      BY <1>1, <1>4, <2>2 DEF SameRow
    <3>2. r \in bcq
      BY <1>2, <2>2, <3>1 DEF SubsOf
    <3>3. PICK x \in bcq : x.proc = t /\ Claimed(x)
      BY <1>0, <3>2 DEF AllClaimed, AnyClaimed
    <3>4. x \in queue \ rows
      BY <1>1, <1>2, <2>2, <3>3
    <3> QED
      BY <1>4, <3>3, <3>4
  <2> QED
    BY <2>1, <2>2
<1>7. SelfFed'
  <2> SUFFICES ASSUME NEW r \in bcq', NEW t \in Subs, ~Fed(r.proc),
                      ParentOf[t] = ParentOf[r.proc]
               PROVE  ~Fed(t)
    BY DEF SelfFed, Fed
  <2>1. PICK x \in queue : x.proc = r.proc
    BY <1>3, <1>4 DEF SameRow
  <2>2. CASE x \in bcq
    BY <1>0, <2>1, <2>2 DEF SelfFed
  <2>3. CASE x \notin bcq
    BY <1>2, <2>1, <2>3 DEF SubsOf
  <2> QED
    BY <2>2, <2>3
<1> QED
  BY <1>6, <1>7 DEF WedgeInv

LEMMA WedgeStep ==
  ASSUME ExecInv, OrderInv, LeftInv, WedgeInv, [WorkflowNext]_allVars
  PROVE  WedgeInv'
<1>0. TypeOK /\ DoneProcessed /\ [Next]_vars /\ bcq \in SUBSET Row
  BY WorkflowMakesCalls DEF ExecInv, LeftInv, TypeOK
<1>1. ASSUME NEW rows \in SUBSET bcq, NEW state \in BatchState, bcq' = Restated(bcq, rows, state)
      PROVE  WedgeInv'
  <2>1. /\ \A r \in bcq' : \E x \in bcq : Alike(r, x)
        /\ \A x \in bcq : \E r \in bcq' : Alike(r, x)
    <3>1. /\ \A r \in Restated(bcq, rows, state) : \E x \in bcq : Alike(r, x)
          /\ \A x \in bcq : \E r \in Restated(bcq, rows, state) : Alike(r, x)
      BY <1>0, RestateFacts
    <3> QED
      BY <1>1, <3>1
  <2> QED
    BY <2>1, ClaimsUnmoved DEF Alike
<1>2. ASSUME NEW j \in Jobs, NEW maxBatch \in MaxBatchArgs, InitJob(j, maxBatch) PROVE WedgeInv'
  <2>1. CASE FreshRun(j, maxBatch)
    BY <1>2, <2>1, FreshWedge DEF InitJob, AcceptsInitJob
  <2>2. CASE Rerun(j)
    BY <1>1, <2>2, RerunEffect DEF BatchState
  <2> QED
    BY <1>2, <2>1, <2>2 DEF InitJob
<1>3. ASSUME WorkflowNext, NEW j \in Jobs, HaltJob(j) PROVE WedgeInv'
  <2>1. PICK src : bcq' = (bcq \ Consumed(j)) \union NewRows(Downstream(j), src)
    BY <1>0, <1>3, HaltEffect
  <2>2. Consumed(j) \in SUBSET bcq /\ \A r \in Consumed(j) : ParentOf[r.proc] = j
    BY DEF Consumed, JobRows
  <2>3. ASSUME NEW x \in bcq, ParentOf[x.proc] = j, Claimed(x) PROVE x \in Consumed(j)
    <3>1. x.proc \in SubsOf(j)
      BY <1>0, <2>3 DEF SubsOf, Row
    <3>2. x.state = "processed"
      BY <1>0, <1>3, <2>3, <3>1, HaltedProcessed
    <3> QED
      BY <2>3, <3>2 DEF Consumed, JobRows
  <2> QED
    BY <1>0, <2>1, <2>2, <2>3, FedRowsArrive
<1>4. ASSUME NEW j \in Jobs, BatchEnqueue(j) PROVE WedgeInv'
  <2>1. PICK src : bcq' = bcq \union NewRows(Downstream(j), src)
    BY <1>0, <1>4, FileEffect
  <2> DEFINE none == {}
  <2>2. bcq' = (bcq \ none) \union NewRows(Downstream(j), src) /\ none \in SUBSET bcq
        /\ \A r \in none : FALSE
    BY <2>1
  <2> HIDE DEF none
  <2> QED
    BY <1>0, <2>2, FedRowsArrive
<1>5. ASSUME NEW s \in Subs, HaltStep(s) \/ TermStep(s) PROVE WedgeInv'
  BY <1>0, <1>1, <1>5, StepEffect DEF BatchState
<1>6. CASE UNCHANGED bcq
  BY <1>6, ClaimsUnmoved
<1>7. CASE UNCHANGED vars
  BY <1>6, <1>7 DEF vars
<1>8. WorkflowNext \/ UNCHANGED vars
  BY DEF allVars, vars
<1> QED
  BY <1>0, <1>2, <1>3, <1>4, <1>5, <1>6, <1>7, <1>8 DEF Next, TermJob, InitStep

\* As many steps have rows as are fed, once every fed step has a claimed one.
LEMMA FedStepsHaveRows ==
  ASSUME AllClaimed, TypeOK, NEW j \in Jobs, IsRerun(j)
  PROVE  HasBatches(j)
<1> DEFINE queued == {s \in SubsOf(j) : RowsOf(s, bcq) # {}}
           consuming == {s \in SubsOf(j) : EnqueuingProcess[s] # NoProcess}
<1>1. SubsOf(j) \subseteq Subs /\ IsFiniteSet(Subs)
  BY SubsOfFacts, CatalogueAssumption
<1>2. ASSUME NEW s \in consuming PROVE s \in queued
  <2>1. PICK y \in bcq : ParentOf[y.proc] = j /\ Claimed(y) /\ y.proc \in Subs
    BY DEF IsRerun, JobRows, TypeOK, Row
  <2>2. AnyClaimed(y.proc) /\ ParentOf[s] = j /\ Fed(s) /\ s \in Subs
    BY <1>1, <1>2, <2>1 DEF AnyClaimed, Fed, SubsOf
  <2>3. AnyClaimed(s)
    BY <2>1, <2>2 DEF AllClaimed
  <2> QED
    BY <1>2, <2>3 DEF AnyClaimed, RowsOf
<1>3. IsFiniteSet(queued) /\ consuming \in SUBSET queued
  BY <1>1, <1>2, FS_Subset
<1> HIDE DEF queued, consuming
<1>4. Cardinality(consuming) <= Cardinality(queued)
  BY <1>3, FS_Subset
<1>5. Cardinality(consuming) \in Nat /\ Cardinality(queued) \in Nat
  BY <1>3, FS_Subset, FS_CardinalityType
<1>6. Cardinality(queued) >= Cardinality(consuming)
  BY <1>4, <1>5
<1> QED
  BY <1>6 DEF HasBatches, queued, consuming

LEMMA FailedRunsAreOpen == ExecInv /\ OrderInv /\ WedgeInv => RerunsAreAccepted
<1> SUFFICES ASSUME ExecInv, OrderInv, WedgeInv, NEW j \in Jobs, NEW maxBatch \in MaxBatchArgs,
                    IsRerun(j), Running(j) = {}
             PROVE  NotRunning(j) /\ HasBatches(j) /\ CanClaim(j, maxBatch)
  BY DEF RerunsAreAccepted
<1>0. IdsInv /\ TypeOK /\ bcq \in SUBSET Row /\ SubsOf(j) \subseteq Subs
  BY SubsOfFacts DEF OrderInv, IdsInv, TypeOK
<1>1. ASSUME NEW s \in SubsOf(j), NEW r \in Oldest(RowsOf(s, bcq)), ~Claimed(r)
      PROVE  FALSE
  <2>1. r \in bcq /\ r.proc = s /\ \A x \in bcq : x.proc = s => r.id <= x.id
    BY DEF Oldest, RowsOf
  <2>2. Fed(s)
    BY <1>1, <2>1 DEF OrderInv, MarkedAreClaimed, Marked, Fed
  <2>3. PICK y \in bcq : ParentOf[y.proc] = j /\ Claimed(y)
    BY DEF IsRerun, JobRows
  <2>4. PICK x \in bcq : x.proc = s /\ Claimed(x)
    BY <1>0, <2>2, <2>3 DEF WedgeInv, AllClaimed, AnyClaimed, SubsOf, Row
  <2>5. r.id \in Nat /\ x.id \in Nat /\ r.id <= x.id /\ r.id # x.id
    BY <1>0, <1>1, <2>1, <2>4 DEF IdsInv, IdsKept, NoTwins, SameRow, Row
  <2>6. x.id > r.id
    BY <2>5
  <2> QED
    BY <1>1, <2>1, <2>4, <2>6 DEF OrderInv, OrderKept
<1>2. Running(FirstSub(j)) = {}
  <2>1. SubsOf(j) # {}
    BY <1>0 DEF IsRerun, JobRows, SubsOf, Row
  <2>2. FirstSub(j) \in Subs /\ ParentOf[FirstSub(j)] = j
    BY <2>1, FirstSubFacts DEF SubsOf
  <2> QED
    BY <2>2 DEF ExecInv, StepsUnderJob
<1>3. HasBatches(j)
  BY <1>0, FedStepsHaveRows DEF WedgeInv
<1> QED
  BY <1>1, <1>2, <1>3 DEF NotRunning, CanClaim, OldestClaimed

\* Whatever became of its last workflow, a job that has rows claimed and is not
\* left RUNNING can be run again.
THEOREM FailedRunsCanBeRepeated == WorkflowSpec => []RerunsAreAccepted
<1>1. WorkflowInit => Init /\ WedgeInv
  BY DEF WorkflowInit, Init, WedgeInv, AllClaimed, AnyClaimed, SelfFed
<1>2. WorkflowSpec => Spec
  BY <1>1, WorkflowMakesCalls, PTL DEF WorkflowSpec, Spec
<1>3. ExecInv /\ OrderInv /\ LeftInv /\ WedgeInv /\ [WorkflowNext]_allVars => WedgeInv'
  BY WedgeStep
<1> QED
  BY <1>1, <1>2, <1>3, FailedRunsAreOpen, WorkflowsAreNested, OrderInvariant, LeftKept, PTL
     DEF WorkflowSpec

-----------------------------------------------------------------------------
(***************************************************************************)
(* A workflow that ended has failed its job or completed it, when nodes    *)
(* fail only because their call is refused and the steps of a job follow   *)
(* one another.  The last condition is needed: with two branches TermJob   *)
(* may come while a step of the other one is running, and is refused.      *)
(***************************************************************************)

\* Steps of a job of which each leads to the next.
Lines(j) == {line \in Seq(SubsOf(j)) : \A k \in 2 .. Len(line) : line[k - 1] \in Follows(line[k])}
Sequential ==
  \A j \in Jobs : \E line \in Lines(j) : \A s \in SubsOf(j) : \E k \in DOMAIN line : line[k] = s

\* What comes before a step that was begun is done, whatever the graph.
InLine ==
  \A j \in Jobs : \A line \in Lines(j) : \A i, k \in DOMAIN line :
    i < k /\ node[line[k]] # "initstep" => node[line[i]] = "done"

OnItsWay(s) == node[s] \in {"action", "haltstep", "termstep"}
LiveRuns == \A j \in Jobs : Live(j) <=> Running(j) # {}
StepRuns == \A s \in Subs : OnItsWay(s) <=> Running(s) # {}
RunsInSteps == \A s \in Subs : OnItsWay(s) => wf[ParentOf[s]] = "steps"
EndsForAReason ==
  \A j \in Jobs : wf[j] = "termjob" =>
    (\A s \in SubsOf(j) : node[s] = "done") \/ (\E s \in SubsOf(j) : node[s] = "failed")
KilledInv == InLine /\ LiveRuns /\ StepRuns /\ RunsInSteps /\ EndsForAReason

LEMMA LineFacts ==
  ASSUME NEW j \in Jobs, NEW line \in Lines(j)
  PROVE  /\ Len(line) \in Nat /\ DOMAIN line = 1 .. Len(line)
         /\ \A k \in DOMAIN line : line[k] \in Subs /\ ParentOf[line[k]] = j
         /\ \A k \in DOMAIN line : k # 1 => k - 1 \in DOMAIN line /\ line[k - 1] \in Follows(line[k])
<1>1. line \in Seq(SubsOf(j)) /\ \A k \in 2 .. Len(line) : line[k - 1] \in Follows(line[k])
  BY DEF Lines
<1>2. /\ Len(line) \in Nat /\ DOMAIN line = 1 .. Len(line)
      /\ \A k \in DOMAIN line : line[k] \in SubsOf(j)
  BY <1>1
<1>3. \A k \in DOMAIN line : k # 1 => k \in 2 .. Len(line) /\ k - 1 \in DOMAIN line
  BY <1>2
<1> QED
  BY <1>1, <1>2, <1>3 DEF SubsOf

\* How branches move.
LEMMA BranchMoves ==
  ASSUME FlowTypes, [WorkflowNext]_allVars
  PROVE  \/ \E j \in Jobs : Begin(j)
         \/ \A s \in Subs : node'[s] = node[s] \/ (node[s] # "done" /\ (node[s] = "initstep" => MayInit(s)))
<1>1. ASSUME NEW j \in Jobs, InitJobNode(j) PROVE Begin(j) \/ UNCHANGED node
  BY <1>1, InitJobNodeFacts DEF Goto
<1>2. ASSUME NEW j \in Jobs, HaltJobNode(j) \/ TermJobNode(j) \/ File(j) PROVE UNCHANGED node
  BY <1>2, HaltJobNodeFacts, TermJobNodeFacts, FileFacts DEF Goto
<1>3. ASSUME NEW t \in Subs, InitStepNode(t) \/ ActionNode(t) \/ HaltStepNode(t) \/ TermStepNode(t)
      PROVE  \A s \in Subs : node'[s] = node[s] \/ (node[s] # "done" /\ (node[s] = "initstep" => MayInit(s)))
  <2>1. node[t] # "done" /\ (node[t] = "initstep" => MayInit(t))
    BY <1>3, InitStepNodeFacts, HaltStepNodeFacts DEF ActionNode, TermStepNode
  <2>2. \E st : Reach(t, st) \/ Abandon(t)
    BY <1>3, InitStepNodeFacts, HaltStepNodeFacts, TermStepNodeFacts DEF ActionNode
  <2>3. \A s \in Subs : s # t => node'[s] = node[s]
    BY <2>2 DEF Reach, Abandon, FlowTypes
  <2> QED
    BY <2>1, <2>3
<1>4. CASE UNCHANGED allVars
  BY <1>4 DEF allVars
<1> QED
  BY <1>1, <1>2, <1>3, <1>4 DEF WorkflowNext, Engine, SubsOf

LEMMA InLineStep ==
  ASSUME FlowTypes, InLine, [WorkflowNext]_allVars
  PROVE  InLine'
<1> SUFFICES ASSUME NEW j \in Jobs, NEW line \in Lines(j), NEW i \in DOMAIN line, NEW k \in DOMAIN line,
                    i < k, node'[line[k]] # "initstep"
             PROVE  node'[line[i]] = "done"
  BY DEF InLine, Lines, SubsOf, Follows
<1>0. /\ Len(line) \in Nat /\ DOMAIN line = 1 .. Len(line)
      /\ line[i] \in Subs /\ ParentOf[line[i]] = j /\ line[k] \in Subs /\ ParentOf[line[k]] = j
      /\ k # 1 => k - 1 \in DOMAIN line /\ line[k - 1] \in Follows(line[k])
  BY LineFacts
<1>1. ASSUME NEW b \in Jobs, Begin(b) PROVE node'[line[i]] = "done"
  <2>1. b # j
    BY <1>0, <1>1 DEF Begin
  <2>2. node'[line[k]] = node[line[k]] /\ node'[line[i]] = node[line[i]]
    BY <1>0, <1>1, <2>1 DEF Begin
  <2> QED
    BY <2>2 DEF InLine
<1>2. ASSUME \A s \in Subs : node'[s] = node[s] \/ (node[s] # "done" /\ (node[s] = "initstep" => MayInit(s)))
      PROVE  node'[line[i]] = "done"
  <2>1. CASE node[line[k]] # "initstep"
    BY <1>0, <1>2, <2>1 DEF InLine
  <2>2. CASE node[line[k]] = "initstep"
    <3>1. MayInit(line[k]) /\ k # 1
      BY <1>0, <1>2, <2>2
    <3>2. k - 1 \in DOMAIN line /\ node[line[k - 1]] = "done"
      BY <1>0, <3>1 DEF MayInit
    <3>3. i = k - 1 \/ i < k - 1
      BY <1>0
    <3>4. node[line[i]] = "done"
      BY <3>2, <3>3 DEF InLine
    <3> QED
      BY <1>0, <1>2, <3>4
  <2> QED
    BY <2>1, <2>2
<1> QED
  BY <1>1, <1>2, BranchMoves

\* In a job whose steps follow one another, a step that was begun and is not done is
\* the only one: the others are done or have to wait.
LEMMA OneBranch ==
  ASSUME Sequential, InLine, NEW s \in Subs, NEW f \in Subs, s # f, ParentOf[s] = ParentOf[f],
         node[f] \notin {"initstep", "done"}
  PROVE  node[s] = "done" \/ (node[s] = "initstep" /\ ~MayInit(s))
<1>0. ParentOf[f] \in Jobs /\ s \in SubsOf(ParentOf[f]) /\ f \in SubsOf(ParentOf[f])
  BY ParentFacts DEF SubsOf
<1>1. PICK line \in Lines(ParentOf[f]) :
        \A t \in SubsOf(ParentOf[f]) : \E k \in DOMAIN line : line[k] = t
  BY <1>0 DEF Sequential
<1>2. PICK m \in DOMAIN line : line[m] = f
  BY <1>0, <1>1
<1>3. PICK k \in DOMAIN line : line[k] = s
  BY <1>0, <1>1
<1>4. /\ Len(line) \in Nat /\ DOMAIN line = 1 .. Len(line)
      /\ k # 1 => k - 1 \in DOMAIN line /\ line[k - 1] \in Follows(line[k])
  BY <1>0, LineFacts
<1>5. CASE k < m
  BY <1>0, <1>2, <1>3, <1>5 DEF InLine
<1>6. CASE m < k
  <2>1. node[s] = "initstep"
    BY <1>0, <1>2, <1>3, <1>6 DEF InLine
  <2>2. ASSUME MayInit(s) PROVE FALSE
    <3>1. k # 1 /\ (m = k - 1 \/ m < k - 1)
      BY <1>4, <1>6
    <3>2. k - 1 \in DOMAIN line /\ node[line[k - 1]] = "done"
      BY <1>3, <1>4, <2>2, <3>1 DEF MayInit
    <3> QED
      BY <1>0, <1>2, <3>1, <3>2 DEF InLine
  <2> QED
    BY <2>1, <2>2
<1> QED
  BY <1>2, <1>3, <1>4, <1>5, <1>6

\* What a call leaves running.
LEMMA RunningAfterCall ==
  ASSUME ExecInv, NEW p \in Processes
  PROVE  /\ \A n \in Nat : Starts(p, n) =>
              /\ Running(p)' # {}
              /\ \A q \in Processes \ {p} : Running(q)' = Running(q)
         /\ \A st \in {"success", "failed"} : Ends(p, st) =>
              /\ Running(p)' = {}
              /\ \A q \in Processes \ {p} : Running(q)' = Running(q)
<1>0. TypeOK /\ \A i \in Running(p) : i = Len(execs[p])
  BY DEF ExecInv, OneInstance
<1>1. ASSUME NEW n \in Nat, Starts(p, n)
      PROVE  /\ Running(p)' # {}
             /\ \A q \in Processes \ {p} : Running(q)' = Running(q)
  <2>1. execs' = Start(p, n)
    BY <1>1 DEF Starts
  <2>2. Running(p)' = Running(p) \union {Len(execs[p]) + 1}
    BY <1>0, <2>1, RunningAfterStart
  <2>3. \A q \in Processes \ {p} : Running(q)' = Running(q)
    BY <1>0, <2>1, RunningAfterStart
  <2> QED
    BY <2>2, <2>3
<1>2. ASSUME NEW st \in {"success", "failed"}, Ends(p, st)
      PROVE  /\ Running(p)' = {}
             /\ \A q \in Processes \ {p} : Running(q)' = Running(q)
  <2>1. PICK i \in Running(p) : execs' = Finish(p, i, st)
    BY <1>2 DEF Ends
  <2>2. Running(p)' = Running(p) \ {i}
    BY <1>0, <2>1, RunningAfterFinish
  <2>3. \A q \in Processes \ {p} : Running(q)' = Running(q)
    BY <1>0, <2>1, RunningAfterFinish
  <2> QED
    BY <1>0, <2>2, <2>3
<1> QED
  BY <1>1, <1>2

\* A step of a job changes the branch of that step alone; the parts that speak of the
\* other steps and jobs survive when nothing else is started or ended.
LEMMA BranchStep ==
  ASSUME KilledInv, FlowTypes, FlowTypes', NEW s \in Subs,
         \A t \in Subs \ {s} : node'[t] = node[t],
         \A q \in Processes \ {s} : Running(q)' = Running(q),
         \A j \in Jobs \ {ParentOf[s]} : wf'[j] = wf[j],
         wf[ParentOf[s]] = "steps",
         OnItsWay(s)' <=> Running(s)' # {},
         \/ wf'[ParentOf[s]] = "steps"
         \/ /\ wf'[ParentOf[s]] = "termjob" /\ node'[s] = "failed"
            /\ \A t \in Subs \ {s} : ParentOf[t] = ParentOf[s] => ~OnItsWay(t)
  PROVE  LiveRuns' /\ StepRuns' /\ RunsInSteps' /\ EndsForAReason'
<1>0. Jobs \subseteq Processes \ {s} /\ ParentOf[s] \in Jobs /\ Subs \subseteq Processes
  BY ParentFacts DEF Processes
<1>1. LiveRuns'
  <2>1. \A j \in Jobs : Live(j)' <=> Live(j)
    BY <1>0 DEF Live
  <2> QED
    BY <1>0, <2>1 DEF KilledInv, LiveRuns
<1>2. StepRuns'
  <2>1. \A t \in Subs \ {s} : OnItsWay(t)' <=> OnItsWay(t)
    BY DEF OnItsWay
  <2> QED
    BY <1>0, <2>1 DEF KilledInv, StepRuns
<1>3. RunsInSteps'
  <2> SUFFICES ASSUME NEW t \in Subs, OnItsWay(t)' PROVE wf'[ParentOf[t]] = "steps"
    BY DEF RunsInSteps
  <2>1. CASE t = s
    BY <2>1 DEF OnItsWay
  <2>2. CASE t # s
    <3>1. OnItsWay(t)
      BY <2>2 DEF OnItsWay
    <3>2. ParentOf[t] \in Jobs /\ wf[ParentOf[t]] = "steps"
      BY <3>1, ParentFacts DEF KilledInv, RunsInSteps
    <3>3. CASE ParentOf[t] = ParentOf[s]
      BY <2>2, <3>1, <3>3
    <3>4. CASE ParentOf[t] # ParentOf[s]
      BY <3>2, <3>4
    <3> QED
      BY <3>3, <3>4
  <2> QED
    BY <2>1, <2>2
<1>4. EndsForAReason'
  <2> SUFFICES ASSUME NEW j \in Jobs, wf'[j] = "termjob"
               PROVE  (\A t \in SubsOf(j) : node'[t] = "done") \/ (\E t \in SubsOf(j) : node'[t] = "failed")
    BY DEF EndsForAReason, SubsOf
  <2>1. CASE j = ParentOf[s]
    BY <2>1 DEF SubsOf
  <2>2. CASE j # ParentOf[s]
    BY <2>2 DEF SubsOf, KilledInv, EndsForAReason
  <2> QED
    BY <2>1, <2>2
<1> QED
  BY <1>1, <1>2, <1>3, <1>4

\* The same of a node of the job.
LEMMA TrunkStep ==
  ASSUME KilledInv, FlowTypes, NEW j \in Jobs, UNCHANGED node,
         \A q \in Processes \ {j} : Running(q)' = Running(q),
         \A k \in Jobs \ {j} : wf'[k] = wf[k],
         Live(j)' <=> Running(j)' # {},
         \A s \in SubsOf(j) : ~OnItsWay(s),
         wf'[j] = "termjob" => \A s \in SubsOf(j) : node[s] = "done"
  PROVE  LiveRuns' /\ StepRuns' /\ RunsInSteps' /\ EndsForAReason'
<1>0. Subs \subseteq Processes \ {j} /\ Jobs \subseteq Processes
  BY ParentFacts DEF Processes
<1>1. LiveRuns'
  BY <1>0 DEF KilledInv, LiveRuns, Live
<1>2. \A t \in Subs : OnItsWay(t)' <=> OnItsWay(t)
  BY DEF OnItsWay
<1>3. StepRuns'
  BY <1>0, <1>2 DEF KilledInv, StepRuns
<1>4. RunsInSteps'
  BY <1>2, ParentFacts DEF KilledInv, RunsInSteps, SubsOf
<1>5. EndsForAReason'
  BY DEF KilledInv, EndsForAReason, SubsOf
<1> QED
  BY <1>1, <1>3, <1>4, <1>5

\* The trunk: a workflow starts with none of its steps on its way.
LEMMA BeginStep ==
  ASSUME ExecInv, KilledInv, FlowTypes, FlowTypes', NEW j \in Jobs, ~Live(j), Begin(j),
         NEW maxBatch \in MaxBatchArgs, InitJob(j, maxBatch)
  PROVE  LiveRuns' /\ StepRuns' /\ RunsInSteps' /\ EndsForAReason'
<1>0. Subs \subseteq Processes \ {j} /\ Jobs \subseteq Processes
  BY ParentFacts DEF Processes
<1>1. /\ wf' = [wf EXCEPT ![j] = "steps"] /\ wf'[j] = "steps"
      /\ \A k \in Jobs \ {j} : wf'[k] = wf[k]
  BY DEF Begin, FlowTypes
<1>2. Running(j)' # {} /\ \A q \in Processes \ {j} : Running(q)' = Running(q)
  <2>1. Starts(j, Len(execs[j]) + 1) /\ Len(execs[j]) + 1 \in Nat
    BY <1>0, CallEffects, ExecFacts DEF ExecInv
  <2> QED
    BY <1>0, <2>1, RunningAfterCall
<1>3. LiveRuns'
  BY <1>0, <1>1, <1>2 DEF KilledInv, LiveRuns, Live
<1>4. \A s \in Subs : OnItsWay(s)' <=> OnItsWay(s)
  <2> SUFFICES ASSUME NEW s \in Subs PROVE OnItsWay(s)' <=> OnItsWay(s)
    OBVIOUS
  <2>1. CASE ParentOf[s] = j
    BY <2>1 DEF Begin, OnItsWay, KilledInv, RunsInSteps, Live
  <2>2. CASE ParentOf[s] # j
    BY <2>2 DEF Begin, OnItsWay
  <2> QED
    BY <2>1, <2>2
<1>5. StepRuns'
  BY <1>0, <1>2, <1>4 DEF KilledInv, StepRuns
<1>6. RunsInSteps'
  BY <1>1, <1>4, ParentFacts DEF KilledInv, RunsInSteps
<1>7. EndsForAReason'
  <2> SUFFICES ASSUME NEW k \in Jobs, wf'[k] = "termjob"
               PROVE  (\A t \in SubsOf(k) : node'[t] = "done") \/ (\E t \in SubsOf(k) : node'[t] = "failed")
    BY DEF EndsForAReason, SubsOf
  <2>1. k # j /\ wf[k] = "termjob"
    BY <1>1
  <2>2. \A t \in SubsOf(k) : node'[t] = node[t]
    BY <2>1 DEF Begin, SubsOf
  <2> QED
    BY <2>1, <2>2 DEF KilledInv, EndsForAReason
<1> QED
  BY <1>3, <1>5, <1>6, <1>7

\* What the calls of a step and of a job accept in a workflow that keeps the invariant.
LEMMA StepIsRunning ==
  ASSUME KilledInv, NEW s \in Subs, OnItsWay(s)
  PROVE  wf[ParentOf[s]] = "steps" /\ AcceptsEndStep(s)
<1>1. wf[ParentOf[s]] = "steps" /\ ParentOf[s] \in Jobs
  BY ParentFacts DEF KilledInv, RunsInSteps
<1>2. Running(ParentOf[s]) # {} /\ Running(s) # {}
  BY <1>1 DEF KilledInv, LiveRuns, StepRuns, Live
<1> QED
  BY <1>1, <1>2 DEF AcceptsEndStep

LEMMA JobIsAlone ==
  ASSUME ExecInv, KilledInv, NEW j \in Jobs, wf[j] = "termjob"
  PROVE  AcceptsTermJob(j)
<1>0. j \in Processes
  BY DEF Processes
<1>1. Running(j) # {}
  BY DEF KilledInv, LiveRuns, Live
<1>2. Len(execs[j]) \in Running(j) /\ execs[j] # <<>>
  BY <1>0, <1>1, ExecFacts DEF ExecInv, OneInstance, Running
<1>3. LastState(j) = "running"
  BY <1>2 DEF LastState, Running
<1>4. \A s \in SubsOf(j) : Running(s) = {}
  BY DEF KilledInv, RunsInSteps, StepRuns, SubsOf
<1> QED
  BY <1>3, <1>4 DEF AcceptsTermJob, NoSubRunning

LEMMA StepMayBegin ==
  ASSUME Sequential, KilledInv, NEW s \in Subs, Live(ParentOf[s]), node[s] = "initstep", MayInit(s)
  PROVE  wf[ParentOf[s]] = "steps"
<1>1. SUFFICES ASSUME wf[ParentOf[s]] = "termjob" PROVE FALSE
  BY DEF Live
<1>2. ParentOf[s] \in Jobs /\ s \in SubsOf(ParentOf[s])
  BY ParentFacts DEF SubsOf
<1>3. PICK f \in SubsOf(ParentOf[s]) : node[f] = "failed"
  BY <1>1, <1>2 DEF KilledInv, EndsForAReason
<1>4. f \in Subs /\ ParentOf[f] = ParentOf[s] /\ s # f
  BY <1>3 DEF SubsOf
<1> QED
  BY <1>3, <1>4, OneBranch DEF KilledInv

LEMMA OthersRest ==
  ASSUME Sequential, KilledInv, NEW s \in Subs, OnItsWay(s) \/ (node[s] = "initstep" /\ MayInit(s))
  PROVE  \A t \in Subs \ {s} : ParentOf[t] = ParentOf[s] => ~OnItsWay(t)
<1> SUFFICES ASSUME NEW t \in Subs, t # s, ParentOf[t] = ParentOf[s], OnItsWay(t) PROVE FALSE
  OBVIOUS
<1>1. node[t] \notin {"initstep", "done"}
  BY DEF OnItsWay
<1>2. node[s] = "done" \/ (node[s] = "initstep" /\ ~MayInit(s))
  BY <1>1, OneBranch DEF KilledInv
<1> QED
  BY <1>2 DEF OnItsWay

\* A node of a step.
LEMMA StepNodeKills ==
  ASSUME ~Unreliable, Sequential, ExecInv, FlowTypes, FlowTypes', KilledInv, NEW s \in Subs,
         InitStepNode(s) \/ ActionNode(s) \/ HaltStepNode(s) \/ TermStepNode(s)
  PROVE  LiveRuns' /\ StepRuns' /\ RunsInSteps' /\ EndsForAReason'
<1>0. s \in Processes /\ ParentOf[s] \in Jobs
  BY ParentFacts
<1>1. \/ /\ node[s] = "initstep" /\ MayInit(s) /\ Live(ParentOf[s])
         /\ \/ InitStep(s) /\ Reach(s, "action")
            \/ UNCHANGED vars /\ Abandon(s)
      \/ /\ OnItsWay(s)
         /\ \/ HaltStep(s) /\ Reach(s, "done")
            \/ UNCHANGED vars /\ \E st \in {"haltstep", "termstep"} : Reach(s, st)
            \/ TermStep(s) /\ Abandon(s)
  <2>1. CASE InitStepNode(s)
    BY <2>1 DEF InitStepNode, Succeeds, Fails
  <2>2. CASE ActionNode(s)
    BY <2>2 DEF ActionNode, OnItsWay
  <2>3. CASE HaltStepNode(s)
    BY <2>3 DEF HaltStepNode, Succeeds, Fails, OnItsWay
  <2>4. CASE TermStepNode(s)
    <3>1. OnItsWay(s)
      BY <2>4 DEF TermStepNode, OnItsWay
    <3>2. AcceptsEndStep(s)
      BY <3>1, StepIsRunning
    <3> QED
      BY <2>4, <3>1, <3>2 DEF TermStepNode, Succeeds, Fails
  <2> QED
    BY <2>1, <2>2, <2>3, <2>4
<1>2. wf[ParentOf[s]] = "steps"
  BY <1>1, StepIsRunning, StepMayBegin
<1>3. \A t \in Subs \ {s} : ParentOf[t] = ParentOf[s] => ~OnItsWay(t)
  BY <1>1, OthersRest
<1>4. /\ \A t \in Subs \ {s} : node'[t] = node[t]
      /\ \A j \in Jobs \ {ParentOf[s]} : wf'[j] = wf[j]
  BY <1>0, <1>1 DEF Reach, Abandon, FlowTypes
<1>5. \/ wf'[ParentOf[s]] = "steps"
      \/ wf'[ParentOf[s]] = "termjob" /\ node'[s] = "failed"
  BY <1>0, <1>1, <1>2 DEF Reach, Abandon, FlowTypes
<1>6. /\ \A q \in Processes \ {s} : Running(q)' = Running(q)
      /\ OnItsWay(s)' <=> Running(s)' # {}
  <2>1. CASE InitStep(s) /\ Reach(s, "action")
    <3>1. Starts(s, Len(execs[ParentOf[s]])) /\ Len(execs[ParentOf[s]]) \in Nat
      BY <1>0, <2>1, CallEffects, ExecFacts, ParentFacts DEF ExecInv
    <3>2. node'[s] = "action"
      BY <2>1 DEF Reach, FlowTypes
    <3> QED
      BY <1>0, <3>1, <3>2, RunningAfterCall DEF OnItsWay
  <2>2. CASE HaltStep(s) /\ Reach(s, "done")
    <3>1. Ends(s, "success") /\ node'[s] = "done"
      BY <2>2, CallEffects DEF Reach, FlowTypes
    <3> QED
      BY <1>0, <3>1, RunningAfterCall DEF OnItsWay
  <2>3. CASE TermStep(s) /\ Abandon(s)
    <3>1. Ends(s, "failed") /\ node'[s] = "failed"
      BY <2>3, CallEffects DEF Abandon, FlowTypes
    <3> QED
      BY <1>0, <3>1, RunningAfterCall DEF OnItsWay
  <2>4. ASSUME UNCHANGED vars PROVE \A q \in Processes : Running(q)' = Running(q)
    BY <2>4 DEF vars, Running
  <2>5. CASE UNCHANGED vars /\ node[s] = "initstep" /\ Abandon(s)
    <3>1. node'[s] = "failed" /\ ~OnItsWay(s)
      BY <2>5 DEF Abandon, FlowTypes, OnItsWay
    <3> QED
      BY <1>0, <2>4, <2>5, <3>1 DEF KilledInv, StepRuns, OnItsWay
  <2>6. CASE UNCHANGED vars /\ OnItsWay(s) /\ \E st \in {"haltstep", "termstep"} : Reach(s, st)
    <3>1. OnItsWay(s)'
      BY <2>6 DEF Reach, FlowTypes, OnItsWay
    <3> QED
      BY <1>0, <2>4, <2>6, <3>1 DEF KilledInv, StepRuns
  <2> QED
    BY <1>1, <2>1, <2>2, <2>3, <2>5, <2>6
<1> QED
  BY <1>2, <1>3, <1>4, <1>5, <1>6, BranchStep

\* A node of the job, after the steps.
LEMMA JobNodeKills ==
  ASSUME ~Unreliable, ExecInv, FlowTypes, KilledInv, NEW j \in Jobs,
         HaltJobNode(j) \/ TermJobNode(j)
  PROVE  LiveRuns' /\ StepRuns' /\ RunsInSteps' /\ EndsForAReason'
<1>0. j \in Processes
  BY DEF Processes
<1>1. /\ Live(j) /\ \A s \in SubsOf(j) : ~OnItsWay(s)
      /\ \/ HaltJob(j) /\ Goto(j, "succeeded")
         \/ UNCHANGED vars /\ Goto(j, "termjob") /\ \A s \in SubsOf(j) : node[s] = "done"
         \/ TermJob(j) /\ Goto(j, "killed")
  <2>1. CASE HaltJobNode(j)
    BY <2>1 DEF HaltJobNode, Succeeds, Fails, Live, OnItsWay
  <2>2. CASE TermJobNode(j)
    <3>1. wf[j] = "termjob"
      BY <2>2 DEF TermJobNode
    <3>2. AcceptsTermJob(j) /\ \A s \in SubsOf(j) : ~OnItsWay(s)
      BY <3>1, JobIsAlone DEF KilledInv, RunsInSteps, SubsOf
    <3> QED
      BY <2>2, <3>1, <3>2 DEF TermJobNode, Succeeds, Fails, Live
  <2> QED
    BY <2>1, <2>2
<1>2. UNCHANGED node /\ \A k \in Jobs \ {j} : wf'[k] = wf[k]
  BY <1>1 DEF Goto, FlowTypes
<1>3. CASE UNCHANGED vars /\ Goto(j, "termjob") /\ \A s \in SubsOf(j) : node[s] = "done"
  <2>1. \A q \in Processes : Running(q)' = Running(q)
    BY <1>3 DEF vars, Running
  <2>2. Live(j)' /\ Running(j) # {}
    BY <1>1, <1>3 DEF Goto, Live, FlowTypes, KilledInv, LiveRuns
  <2> QED
    BY <1>0, <1>1, <1>2, <1>3, <2>1, <2>2, TrunkStep
<1>4. CASE (HaltJob(j) /\ Goto(j, "succeeded")) \/ (TermJob(j) /\ Goto(j, "killed"))
  <2>1. Ends(j, "success") \/ Ends(j, "failed")
    BY <1>4, CallEffects
  <2>2. Running(j)' = {} /\ \A q \in Processes \ {j} : Running(q)' = Running(q)
    BY <1>0, <2>1, RunningAfterCall
  <2>3. ~Live(j)' /\ wf'[j] # "termjob"
    BY <1>4 DEF Goto, Live, FlowTypes
  <2> QED
    BY <1>1, <1>2, <2>2, <2>3, TrunkStep
<1> QED
  BY <1>1, <1>3, <1>4

LEMMA KilledStep ==
  ASSUME ~Unreliable, Sequential, ExecInv, FlowTypes, FlowTypes', KilledInv,
         [WorkflowNext]_allVars
  PROVE  KilledInv'
<1>0. InLine'
  BY InLineStep DEF KilledInv
<1>1. ASSUME NEW j \in Jobs, InitJobNode(j) PROVE LiveRuns' /\ StepRuns' /\ RunsInSteps' /\ EndsForAReason'
  <2>1. /\ ~Live(j)
        /\ \/ Begin(j) /\ \E maxBatch \in MaxBatchArgs : InitJob(j, maxBatch)
           \/ Goto(j, "killed") /\ UNCHANGED vars
    BY <1>1 DEF InitJobNode, Succeeds, Fails
  <2>2. CASE Goto(j, "killed") /\ UNCHANGED vars
    <3>1. UNCHANGED node /\ wf'[j] = "killed" /\ \A k \in Jobs \ {j} : wf'[k] = wf[k]
      BY <2>2 DEF Goto, FlowTypes
    <3>2. \A q \in Processes : Running(q)' = Running(q)
      BY <2>2 DEF vars, Running
    <3>3. Running(j) = {} /\ ~Live(j)'
      BY <2>1, <3>1 DEF KilledInv, LiveRuns, Live
    <3>4. \A s \in SubsOf(j) : ~OnItsWay(s)
      BY <2>1 DEF KilledInv, RunsInSteps, SubsOf, Live
    <3>5. Running(j)' = {}
      BY <3>2, <3>3 DEF Processes
    <3> QED
      BY <3>1, <3>2, <3>3, <3>4, <3>5, TrunkStep
  <2> QED
    BY <2>1, <2>2, BeginStep
<1>2. ASSUME NEW j \in Jobs, HaltJobNode(j) \/ TermJobNode(j)
      PROVE  LiveRuns' /\ StepRuns' /\ RunsInSteps' /\ EndsForAReason'
  BY <1>2, JobNodeKills
<1>3. ASSUME NEW s \in Subs, InitStepNode(s) \/ ActionNode(s) \/ HaltStepNode(s) \/ TermStepNode(s)
      PROVE  LiveRuns' /\ StepRuns' /\ RunsInSteps' /\ EndsForAReason'
  BY <1>3, StepNodeKills
<1>4. ASSUME UNCHANGED <<execs, wf, node>>
      PROVE  LiveRuns' /\ StepRuns' /\ RunsInSteps' /\ EndsForAReason'
  <2>1. /\ \A j \in Jobs : (Live(j)' <=> Live(j)) /\ Running(j)' = Running(j)
        /\ \A s \in Subs : (OnItsWay(s)' <=> OnItsWay(s)) /\ Running(s)' = Running(s)
    BY <1>4 DEF Live, OnItsWay, Running
  <2> QED
    BY <1>4, <2>1 DEF KilledInv, LiveRuns, StepRuns, RunsInSteps, EndsForAReason, SubsOf
<1>5. ASSUME NEW j \in Jobs, File(j) PROVE UNCHANGED <<execs, wf, node>>
  BY <1>5, FileFacts
<1>6. ASSUME UNCHANGED allVars PROVE UNCHANGED <<execs, wf, node>>
  BY <1>6 DEF allVars
<1>7. LiveRuns' /\ StepRuns' /\ RunsInSteps' /\ EndsForAReason'
  <2>1. CASE UNCHANGED allVars
    BY <1>4, <1>6, <2>1
  <2>2. CASE WorkflowNext
    <3>1. PICK j \in Jobs : InitJobNode(j) \/ Engine(j) \/ File(j)
      BY <2>2 DEF WorkflowNext
    <3>2. CASE InitJobNode(j)
      BY <1>1, <3>2
    <3>3. CASE Engine(j)
      BY <1>2, <1>3, <3>3 DEF Engine, SubsOf
    <3>4. CASE File(j)
      BY <1>4, <1>5, <3>4
    <3> QED
      BY <3>1, <3>2, <3>3, <3>4
  <2> QED
    BY <2>1, <2>2
<1> QED
  BY <1>0, <1>7 DEF KilledInv

\* TermJob fails the job of a workflow that did not succeed: when a workflow has
\* ended its job is not left running, which no later initJob would accept.
\* The steps follow one another, as in the run wf_chain; the run wf_fork shows
\* what happens when they do not.
THEOREM EndedJobsAreNotRunning ==
  ASSUME Sequential, ~Unreliable
  PROVE  WorkflowSpec => []KilledIsFailed
<1>1. WorkflowInit => KilledInv
  BY ParentFacts
     DEF WorkflowInit, Init, KilledInv, InLine, LiveRuns, StepRuns, RunsInSteps, EndsForAReason,
         Live, Running, OnItsWay, Lines, SubsOf, Processes
<1>2. ExecInv /\ FlowInv /\ FlowInv' /\ KilledInv /\ [WorkflowNext]_allVars => KilledInv'
  BY KilledStep DEF FlowInv
<1>3. KilledInv => KilledIsFailed
  BY DEF KilledInv, LiveRuns, KilledIsFailed
<1> QED
  BY <1>1, <1>2, <1>3, FlowKept, WorkflowsAreNested, PTL DEF WorkflowSpec
=============================================================================
