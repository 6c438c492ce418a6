-------------------------- MODULE JobControlProofs --------------------------
(* Proofs about the job lifecycle, for every catalogue of processes: runs   *)
(* are nested; no row is lost or doubled, rows are claimed in order, and     *)
(* what is claimed aims at the batch of the latest run.                      *)
EXTENDS JobControl, SequenceTheorems, FiniteSetTheorems, WellFoundedInduction, TLAPS

-----------------------------------------------------------------------------
(***************************************************************************)
(* Lemmas about the operators.                                             *)
(***************************************************************************)

\* Starting an execution of p appends one running entry to the history of p.
LEMMA StartFacts ==
  ASSUME execs \in [Processes -> Seq(Exec)], NEW p \in Processes, NEW n \in Nat
  PROVE  /\ Start(p, n) \in [Processes -> Seq(Exec)]
         /\ \A q \in Processes \ {p} : Start(p, n)[q] = execs[q]
         /\ Len(Start(p, n)[p]) = Len(execs[p]) + 1
         /\ Start(p, n)[p][Len(execs[p]) + 1] = [state |-> "running", during |-> n]
         /\ \A i \in 1 .. Len(execs[p]) : Start(p, n)[p][i] = execs[p][i]
  BY DEF Start, Exec, ExecState

\* Ending execution i of p changes the state of that entry and nothing else.
LEMMA FinishFacts ==
  ASSUME execs \in [Processes -> Seq(Exec)], NEW p \in Processes,
         NEW i \in DOMAIN execs[p], NEW st \in ExecState
  PROVE  /\ Finish(p, i, st) \in [Processes -> Seq(Exec)]
         /\ \A q \in Processes \ {p} : Finish(p, i, st)[q] = execs[q]
         /\ Len(Finish(p, i, st)[p]) = Len(execs[p])
         /\ Finish(p, i, st)[p][i] = [execs[p][i] EXCEPT !.state = st]
         /\ \A k \in 1 .. Len(execs[p]) \ {i} : Finish(p, i, st)[p][k] = execs[p][k]
<1> DEFINE old == execs[p]
           e   == [old[i] EXCEPT !.state = st]
           new == [old EXCEPT ![i] = e]
<1>1. old \in Seq(Exec) /\ i \in 1 .. Len(old)
  OBVIOUS
<1>2. old[i] \in Exec
  BY <1>1, ElementOfSeq
<1>3. e \in Exec
  BY <1>2 DEF Exec
<1> HIDE DEF e, old
<1>4. /\ new \in Seq(Exec)
      /\ Len(new) = Len(old)
      /\ \A k \in 1 .. Len(old) : new[k] = IF k = i THEN e ELSE old[k]
  BY <1>1, <1>3, ExceptSeq
<1> HIDE DEF new
<1>5. Finish(p, i, st) = [execs EXCEPT ![p] = new]
  BY DEF Finish, new, e, old
<1>6. QED
  BY <1>1, <1>4, <1>5 DEF old, e

\* Rows made for haltJob, initJob and batchEnqueue are rows of the queue, and the
\* ids counted for them numbers.
LEMMA NewRowsType ==
  ASSUME lastId \in [Subs -> Nat], NEW S \in SUBSET Subs, NEW src \in Nat
  PROVE  /\ NewRows(S, src) \in SUBSET Row
         /\ CountIds(S) \in [Subs -> Nat]
  BY DEF NewRows, NewRow, CountIds, Row, BatchState

\* The history of a process is a sequence of executions, the running ones among
\* them.
LEMMA ExecFacts ==
  ASSUME TypeOK, NEW p \in Processes
  PROVE  /\ execs[p] \in Seq(Exec)
         /\ Len(execs[p]) \in Nat
         /\ DOMAIN execs[p] = 1 .. Len(execs[p])
         /\ Running(p) \subseteq DOMAIN execs[p]
         /\ \A i \in DOMAIN execs[p] : execs[p][i] \in Exec
<1>1. execs[p] \in Seq(Exec)
  BY DEF TypeOK
<1>2. QED
  BY <1>1, LenProperties, ElementOfSeq DEF Running

\* The steps of a job, those it feeds and those initJob seeds are steps.
LEMMA SubsOfFacts ==
  ASSUME NEW j \in Jobs
  PROVE  SubsOf(j) \subseteq Subs /\ Downstream(j) \subseteq Subs /\ Seeds(j) \subseteq Subs
  BY DEF SubsOf, Downstream, Seeds

\* Claiming rows for a batch (initJob of a fresh run) leaves rows in the queue.
LEMMA ClaimType ==
  ASSUME TypeOK, NEW j \in Jobs, NEW maxBatch, NEW batch \in Nat
  PROVE  ClaimRows(j, maxBatch, batch) \in SUBSET Row
<1>1. SeededQueue(j) \in SUBSET Row
  BY NewRowsType, SubsOfFacts DEF SeededQueue, TypeOK, InitialBatch
<1>2. \A r \in Row : Claim(r, batch) \in Row
  BY DEF Claim, Row, BatchState
<1>3. \A s : Taken(RowsOf(s, SeededQueue(j)), maxBatch) \subseteq SeededQueue(j)
  BY DEF Taken, RowsOf
<1>4. QED
  BY <1>1, <1>2, <1>3 DEF ClaimRows

\* Relinking batches to the new run (initJob of a rerun) adds and drops none.
LEMMA TakeOverType ==
  ASSUME TypeOK, NEW j \in Jobs
  PROVE  TakeOver(j) \in Seq(Run) /\ DOMAIN TakeOver(j) = DOMAIN batches
<1>1. batches \in Seq(Run) /\ Len(execs[j]) \in Nat
  BY DEF TypeOK, Processes
<1>2. [job |-> j, run |-> Len(execs[j]) + 1] \in Run
  BY <1>1 DEF Run
<1>3. DOMAIN batches = 1 .. Len(batches) /\ Len(batches) \in Nat
  BY <1>1
<1>4. \A b \in DOMAIN batches : batches[b] \in Run
  BY <1>1, <1>3, ElementOfSeq
<1>5. TakeOver(j) \in [1 .. Len(batches) -> Run]
  BY <1>2, <1>3, <1>4 DEF TakeOver
<1>6. QED
  BY <1>3, <1>5

-----------------------------------------------------------------------------
(***************************************************************************)
(* Type correctness.                                                       *)
(***************************************************************************)

\* Every table keeps its shape: whatever calls are made, rows have a source
\* batch, executions a state, and ids stay numbers.
THEOREM TypeCorrect == Spec => []TypeOK
<1>1. Init => TypeOK
  BY DEF Init, TypeOK, NoProcess
<1>2. TypeOK /\ [Next]_vars => TypeOK'
  <2> SUFFICES ASSUME TypeOK, [Next]_vars
               PROVE  TypeOK'
    OBVIOUS
  <2>1. ASSUME NEW j \in Jobs, NEW maxBatch \in MaxBatchArgs, InitJob(j, maxBatch)
        PROVE  TypeOK'
    <3>1. execs' \in [Processes -> Seq(Exec)]
      <4>1. j \in Processes /\ execs \in [Processes -> Seq(Exec)]
        BY DEF Processes, TypeOK
      <4>2. Len(execs[j]) + 1 \in Nat
        BY <4>1, ExecFacts
      <4>3. Start(j, Len(execs[j]) + 1) \in [Processes -> Seq(Exec)]
        BY <4>1, <4>2, StartFacts
      <4>4. QED
        BY <2>1, <4>3 DEF InitJob
    <3>2. recoverAt' \in [Jobs -> Processes \union {NoProcess}]
      <4>1. LastRecoverable(j) \in Processes \union {NoProcess}
        <5> DEFINE s == FirstSub(j)
                   next == CHOOSE p \in Processes : NextProcesses[s] = {p}
        <5>1. SubsOf(j) = {s} => s \in Processes
          BY SubsOfFacts DEF Processes
        <5>2. (\E p \in Processes : NextProcesses[s] = {p}) => next \in Processes
          OBVIOUS
        <5>3. QED
          BY <5>1, <5>2 DEF LastRecoverable
      <4>2. QED
        BY <2>1, <4>1 DEF TypeOK, InitJob
    <3>3. batches' \in Seq(Run) /\ bcq' \in SUBSET Row /\ lastId' \in [Subs -> Nat]
      <4>1. CASE FreshRun(j, maxBatch)
        <5>1. [job |-> j, run |-> Len(execs[j]) + 1] \in Run
          BY DEF Run, TypeOK, Processes
        <5>2. batches' \in Seq(Run) /\ Len(batches) + 1 \in Nat
          BY <4>1, <5>1 DEF FreshRun, TypeOK
        <5>3. QED
          BY <4>1, <5>2, ClaimType, NewRowsType, SubsOfFacts
          DEF FreshRun, TypeOK, InitialBatch
      <4>2. CASE Rerun(j)
        <5>1. ReopenRows(j) \in SUBSET Row
          BY DEF ReopenRows, Oldest, RowsOf, TypeOK, Row, BatchState
        <5>2. QED
          BY <4>2, <5>1, TakeOverType DEF Rerun, TypeOK
      <4>3. QED
        BY <2>1, <4>1, <4>2 DEF InitJob
    <3>4. QED
      BY <2>1, <3>1, <3>2, <3>3 DEF TypeOK, InitJob
  <2>2. ASSUME NEW j \in Jobs, HaltJob(j)
        PROVE  TypeOK'
    <3>1. execs' \in [Processes -> Seq(Exec)]
      <4>1. PICK i \in Running(j) : execs' = Finish(j, i, "success")
        BY <2>2 DEF HaltJob
      <4>2. QED
        BY <4>1, FinishFacts, ExecFacts DEF TypeOK, Processes, ExecState
    <3>2. PICK output \in OutputBatches(j) :
            /\ Downstream(j) # {} => output # NoBatch
            /\ bcq' = Unconsumed(j) \union NewRows(Downstream(j), output)
      BY <2>2 DEF HaltJob, HandedOn
    <3>3. output \in Nat \union {NoBatch}
      BY DEF OutputBatches, Oldest, RowsOf, TypeOK, Row
    <3>4. bcq' \in SUBSET Row
      <4>1. CASE Downstream(j) = {}
        BY <4>1, <3>2 DEF NewRows, TypeOK, Unconsumed
      <4>2. CASE Downstream(j) # {}
        BY <4>2, <3>2, <3>3, NewRowsType, SubsOfFacts DEF TypeOK, Unconsumed
      <4>3. QED
        BY <4>1, <4>2
    <3>5. lastId' \in [Subs -> Nat]
      BY <2>2 DEF HaltJob, CountIds, TypeOK
    <3>6. archive' \in SUBSET Row
      BY <2>2 DEF HaltJob, Consumed, JobRows, TypeOK
    <3>7. QED
      BY <2>2, <3>1, <3>4, <3>5, <3>6 DEF HaltJob, TypeOK
  <2>3. ASSUME NEW j \in Jobs, TermJob(j)
        PROVE  TypeOK'
    <3>1. PICK i \in Running(j) : execs' = Finish(j, i, "failed")
      BY <2>3 DEF TermJob
    <3>2. execs' \in [Processes -> Seq(Exec)]
      BY <3>1, FinishFacts, ExecFacts DEF TypeOK, Processes, ExecState
    <3>3. QED
      BY <2>3, <3>2 DEF TypeOK, TermJob
  <2>4. ASSUME NEW j \in Jobs, BatchEnqueue(j)
        PROVE  TypeOK'
    <3>1. NoRun \in Run /\ FileBatches \subseteq Nat
      BY DEF NoRun, Run, FileBatches, TypeOK
    <3>2. batches' \in Seq(Run) /\ Len(batches) + 1 \in Nat
      BY <2>4, <3>1 DEF BatchEnqueue, TypeOK
    <3>3. bcq' \in SUBSET Row /\ lastId' \in [Subs -> Nat]
      BY <2>4, <3>1, <3>2, NewRowsType, SubsOfFacts DEF BatchEnqueue, TypeOK
    <3>4. QED
      BY <2>4, <3>2, <3>3 DEF BatchEnqueue, TypeOK
  <2>5. ASSUME NEW s \in Subs, InitStep(s)
        PROVE  TypeOK'
    <3>1. ParentOf[s] \in Processes /\ s \in Processes
      BY CatalogueAssumption DEF Processes
    <3>2. Len(execs[ParentOf[s]]) \in Nat /\ execs \in [Processes -> Seq(Exec)]
      BY <3>1, ExecFacts DEF TypeOK
    <3>3. Start(s, Len(execs[ParentOf[s]])) \in [Processes -> Seq(Exec)]
      BY <3>1, <3>2, StartFacts
    <3>4. QED
      BY <2>5, <3>3 DEF TypeOK, InitStep
  <2>6. ASSUME NEW s \in Subs, NEW st \in ExecState, NEW rows \in SUBSET bcq,
               EndStep(s, st, rows)
        PROVE  TypeOK'
    <3>1. execs' \in [Processes -> Seq(Exec)]
      <4>1. PICK i \in Running(s) : execs' = Finish(s, i, st)
        BY <2>6 DEF EndStep
      <4>2. QED
        BY <4>1, FinishFacts, ExecFacts DEF TypeOK, Processes
    <3>2. bcq' \in SUBSET Row
      <4>1. \A r \in Row : [r EXCEPT !.state = "processed"] \in Row
        BY DEF Row, BatchState
      <4>2. QED
        BY <2>6, <4>1 DEF TypeOK, EndStep, MarkProcessed
    <3>3. QED
      BY <2>6, <3>1, <3>2 DEF TypeOK, EndStep
  <2>7. ASSUME NEW s \in Subs, HaltStep(s) \/ TermStep(s)
        PROVE  TypeOK'
    BY <2>6, <2>7 DEF HaltStep, TermStep, RowsOf, ClaimedRowsOf, ExecState
  <2>8. CASE UNCHANGED vars
    BY <2>8 DEF vars, TypeOK
  <2>9. QED
    BY <2>1, <2>2, <2>3, <2>4, <2>5, <2>7, <2>8 DEF Next
<1>3. QED
  BY <1>1, <1>2, PTL DEF Spec

-----------------------------------------------------------------------------
(***************************************************************************)
(* One running instance, and steps only under a running job.               *)
(***************************************************************************)
ExecInv == TypeOK /\ OneInstance /\ StepsUnderJob

\* A step and its job are two different processes.
LEMMA ParentFacts ==
  ASSUME NEW s \in Subs
  PROVE  /\ ParentOf[s] \in Jobs
         /\ s \in Processes /\ ParentOf[s] \in Processes
         /\ ParentOf[s] \notin Subs /\ s \notin Jobs
  BY CatalogueAssumption DEF Processes

\* What a call that starts an execution of p leaves running.
LEMMA RunningAfterStart ==
  ASSUME TypeOK, NEW p \in Processes, NEW n \in Nat, execs' = Start(p, n)
  PROVE  /\ Running(p)' = Running(p) \union {Len(execs[p]) + 1}
         /\ Len(execs'[p]) = Len(execs[p]) + 1
         /\ execs'[p][Len(execs[p]) + 1] = [state |-> "running", during |-> n]
         /\ \A i \in Running(p) : execs'[p][i] = execs[p][i]
         /\ \A q \in Processes \ {p} : execs'[q] = execs[q] /\ Running(q)' = Running(q)
<1>1. execs \in [Processes -> Seq(Exec)] /\ execs' \in [Processes -> Seq(Exec)]
  BY StartFacts DEF TypeOK
<1>2. /\ Len(execs'[p]) = Len(execs[p]) + 1
      /\ execs'[p][Len(execs[p]) + 1] = [state |-> "running", during |-> n]
      /\ \A i \in 1 .. Len(execs[p]) : execs'[p][i] = execs[p][i]
      /\ \A q \in Processes \ {p} : execs'[q] = execs[q]
  BY <1>1, StartFacts
<1>3. /\ DOMAIN execs[p] = 1 .. Len(execs[p]) /\ Len(execs[p]) \in Nat
      /\ DOMAIN execs'[p] = 1 .. Len(execs[p]) + 1
  BY <1>1, <1>2, LenProperties
<1>4. Running(p)' = Running(p) \union {Len(execs[p]) + 1}
  BY <1>2, <1>3 DEF Running
<1>5. QED
  BY <1>2, <1>3, <1>4 DEF Running

\* What a call that ends execution i of p leaves running.
LEMMA RunningAfterFinish ==
  ASSUME TypeOK, NEW p \in Processes, NEW i \in Running(p), NEW st \in {"success", "failed"},
         execs' = Finish(p, i, st)
  PROVE  /\ Running(p)' = Running(p) \ {i}
         /\ Len(execs'[p]) = Len(execs[p])
         /\ \A k \in Running(p)' : execs'[p][k] = execs[p][k]
         /\ \A q \in Processes \ {p} : execs'[q] = execs[q] /\ Running(q)' = Running(q)
<1>1. /\ execs \in [Processes -> Seq(Exec)]
      /\ i \in DOMAIN execs[p] /\ execs[p][i] \in Exec /\ st \in ExecState
  BY ExecFacts DEF TypeOK, ExecState
<1>2. /\ execs' \in [Processes -> Seq(Exec)]
      /\ Len(execs'[p]) = Len(execs[p])
      /\ execs'[p][i] = [execs[p][i] EXCEPT !.state = st]
      /\ \A k \in 1 .. Len(execs[p]) \ {i} : execs'[p][k] = execs[p][k]
      /\ \A q \in Processes \ {p} : execs'[q] = execs[q]
  BY <1>1, FinishFacts
<1>3. DOMAIN execs[p] = 1 .. Len(execs[p]) /\ DOMAIN execs'[p] = 1 .. Len(execs[p])
  BY <1>1, <1>2, LenProperties
<1>4. execs'[p][i].state # "running"
  BY <1>1, <1>2 DEF Exec
<1>5. Running(p)' = Running(p) \ {i}
  <2>1. \A k \in 1 .. Len(execs[p]) : k \in Running(p)' <=> k \in Running(p) \ {i}
    BY <1>2, <1>3, <1>4 DEF Running
  <2>2. Running(p)' \subseteq 1 .. Len(execs[p]) /\ Running(p) \subseteq 1 .. Len(execs[p])
    BY <1>3 DEF Running
  <2>3. QED
    BY <2>1, <2>2
<1>6. QED
  BY <1>2, <1>3, <1>5 DEF Running

\* At no time are two executions of a process running, and every running step
\* belongs to the running run of its job: the guards of initJob, initStep,
\* haltJob and termJob suffice, although initJob looks at one sub only.  The
\* two are inductive together: initJob starts a job that is not running, so by
\* the second no step of it is.
THEOREM RunsAreNested == Spec => [](OneInstance /\ StepsUnderJob)
<1>1. Init => ExecInv
  <2> SUFFICES ASSUME Init PROVE ExecInv
    OBVIOUS
  <2>1. TypeOK
    BY DEF Init, TypeOK, NoProcess
  <2>2. \A p \in Processes : Running(p) = {}
    BY DEF Init, Running
  <2>3. QED
    BY <2>1, <2>2, ParentFacts DEF ExecInv, OneInstance, StepsUnderJob
<1>2. ExecInv /\ TypeOK' /\ [Next]_vars => ExecInv'
  <2> SUFFICES ASSUME TypeOK, OneInstance, StepsUnderJob, TypeOK', [Next]_vars
               PROVE  OneInstance' /\ StepsUnderJob'
    BY DEF ExecInv
  <2>1. ASSUME NEW j \in Jobs, NEW maxBatch \in MaxBatchArgs, InitJob(j, maxBatch)
        PROVE  OneInstance' /\ StepsUnderJob'
    <3>1. /\ j \in Processes /\ Len(execs[j]) + 1 \in Nat /\ Running(j) = {}
          /\ execs' = Start(j, Len(execs[j]) + 1)
      BY <2>1, ExecFacts DEF Processes, InitJob, AcceptsInitJob, NotRunning
    <3>2. /\ Running(j)' = {Len(execs'[j])}
          /\ \A q \in Processes \ {j} : execs'[q] = execs[q] /\ Running(q)' = Running(q)
      BY <3>1, RunningAfterStart
    <3>3. OneInstance'
      BY <3>2 DEF OneInstance
    <3>4. \A s \in Subs : execs'[s] = execs[s] /\ Running(s)' = Running(s)
      BY <3>1, <3>2, ParentFacts
    <3>5. \A s \in Subs : Running(s) # {} => ParentOf[s] # j
      BY <3>1 DEF StepsUnderJob
    <3>6. StepsUnderJob'
      BY <3>2, <3>4, <3>5, ParentFacts DEF StepsUnderJob
    <3>7. QED
      BY <3>3, <3>6
  <2>2. ASSUME NEW j \in Jobs, NEW i \in Running(j), NEW st \in {"success", "failed"},
               NoSubRunning(j), execs' = Finish(j, i, st)
        PROVE  OneInstance' /\ StepsUnderJob'
    <3>1. j \in Processes
      BY DEF Processes
    <3>2. /\ Running(j)' \subseteq Running(j) /\ Len(execs'[j]) = Len(execs[j])
          /\ \A q \in Processes \ {j} : execs'[q] = execs[q] /\ Running(q)' = Running(q)
      BY <2>2, <3>1, RunningAfterFinish
    <3>3. OneInstance'
      BY <3>2 DEF OneInstance
    <3>4. \A s \in Subs : execs'[s] = execs[s] /\ Running(s)' = Running(s)
      BY <3>1, <3>2, ParentFacts
    <3>5. \A s \in Subs : Running(s) # {} => ParentOf[s] # j
      BY <2>2 DEF NoSubRunning, SubsOf
    <3>6. StepsUnderJob'
      BY <3>2, <3>4, <3>5, ParentFacts DEF StepsUnderJob
    <3>7. QED
      BY <3>3, <3>6
  <2>3. ASSUME NEW j \in Jobs, HaltJob(j) \/ TermJob(j)
        PROVE  OneInstance' /\ StepsUnderJob'
    BY <2>2, <2>3 DEF HaltJob, TermJob, AcceptsHaltJob, AcceptsHalt, AcceptsTermJob
  <2>4. ASSUME NEW s \in Subs, InitStep(s)
        PROVE  OneInstance' /\ StepsUnderJob'
    <3>1. Len(execs[ParentOf[s]]) \in Nat
      BY ParentFacts, ExecFacts
    <3>2. /\ Running(s) = {} /\ Running(ParentOf[s]) # {}
          /\ execs' = Start(s, Len(execs[ParentOf[s]]))
      BY <2>4 DEF InitStep, AcceptsInitStep
    <3>3. /\ Running(s)' = {Len(execs'[s])}
          /\ execs'[s][Len(execs'[s])].during = Len(execs[ParentOf[s]])
          /\ \A q \in Processes \ {s} : execs'[q] = execs[q] /\ Running(q)' = Running(q)
      <4> DEFINE run == Len(execs[ParentOf[s]])
      <4> HIDE DEF run
      <4>1. s \in Processes /\ run \in Nat /\ execs' = Start(s, run) /\ Running(s) = {}
        BY <3>1, <3>2, ParentFacts DEF run
      <4>2. /\ Running(s)' = Running(s) \union {Len(execs[s]) + 1}
            /\ Len(execs'[s]) = Len(execs[s]) + 1
            /\ execs'[s][Len(execs[s]) + 1] = [state |-> "running", during |-> run]
            /\ \A q \in Processes \ {s} : execs'[q] = execs[q] /\ Running(q)' = Running(q)
        BY <4>1, RunningAfterStart
      <4>3. execs'[s][Len(execs'[s])].during = run
        BY <4>2
      <4>4. QED
        BY <4>1, <4>2, <4>3 DEF run
    <3>4. OneInstance'
      BY <3>3 DEF OneInstance
    <3>5. \A t \in Subs : /\ execs'[ParentOf[t]] = execs[ParentOf[t]]
                          /\ Running(ParentOf[t])' = Running(ParentOf[t])
      BY <3>3, ParentFacts
    <3>6. \A t \in Subs \ {s} : execs'[t] = execs[t] /\ Running(t)' = Running(t)
      BY <3>3, ParentFacts
    <3>7. StepsUnderJob'
      BY <3>2, <3>3, <3>5, <3>6 DEF StepsUnderJob
    <3>8. QED
      BY <3>4, <3>7
  <2>5. ASSUME NEW s \in Subs, NEW i \in Running(s), NEW st \in {"success", "failed"},
               execs' = Finish(s, i, st)
        PROVE  OneInstance' /\ StepsUnderJob'
    <3>1. /\ Running(s)' \subseteq Running(s) /\ Len(execs'[s]) = Len(execs[s])
          /\ \A k \in Running(s)' : execs'[s][k] = execs[s][k]
          /\ \A q \in Processes \ {s} : execs'[q] = execs[q] /\ Running(q)' = Running(q)
      BY <2>5, ParentFacts, RunningAfterFinish
    <3>2. OneInstance'
      BY <3>1 DEF OneInstance
    <3>3. \A t \in Subs : /\ execs'[ParentOf[t]] = execs[ParentOf[t]]
                          /\ Running(ParentOf[t])' = Running(ParentOf[t])
      BY <3>1, ParentFacts
    <3>4. \A t \in Subs \ {s} : execs'[t] = execs[t] /\ Running(t)' = Running(t)
      BY <3>1, ParentFacts
    <3>5. StepsUnderJob'
      BY <3>1, <3>3, <3>4 DEF StepsUnderJob
    <3>6. QED
      BY <3>2, <3>5
  <2>6. ASSUME NEW s \in Subs, HaltStep(s) \/ TermStep(s)
        PROVE  OneInstance' /\ StepsUnderJob'
    BY <2>5, <2>6 DEF HaltStep, TermStep, EndStep
  <2>7. CASE UNCHANGED execs
    BY <2>7 DEF OneInstance, StepsUnderJob, Running
  <2>8. QED
    BY <2>1, <2>3, <2>4, <2>6, <2>7 DEF Next, vars, BatchEnqueue
<1>3. QED
  BY <1>1, <1>2, TypeCorrect, PTL DEF Spec, ExecInv

-----------------------------------------------------------------------------
(***************************************************************************)
(* Lemmas about sets of rows.                                              *)
(***************************************************************************)

\* A finite set of rows that is not empty has an oldest row.
LEMMA SomeRowIsOldest ==
  ASSUME NEW rows \in SUBSET Row, IsFiniteSet(rows), rows # {}
  PROVE  Oldest(rows) # {}
<1> DEFINE older(r) == {x \in rows : x.id < r.id}
           all == {older(r) : r \in rows}
<1>1. all \subseteq FiniteSubsetsOf(rows) /\ all # {}
  <2>1. \A r \in rows : older(r) \subseteq rows /\ IsFiniteSet(older(r))
    BY FS_Subset
  <2>2. QED
    BY <2>1 DEF FiniteSubsetsOf
<1>2. PICK m \in all : \A k \in all : <<k, m>> \notin StrictSubsetOrdering(rows)
  <2> HIDE DEF all
  <2>1. QED
    BY <1>1, FS_StrictSubsetOrderingWellFounded, WFMin
<1>3. PICK r \in rows : m = older(r)
  BY <1>2
<1>4. ASSUME NEW x \in rows
      PROVE  r.id <= x.id
  <2>1. SUFFICES ASSUME x.id < r.id PROVE FALSE
    BY DEF Row
  <2>2. x \in older(r) /\ x \notin older(x) /\ older(x) \subseteq older(r)
    BY <2>1 DEF Row
  <2>3. <<older(x), m>> \in StrictSubsetOrdering(rows)
    BY <1>3, <2>2 DEF StrictSubsetOrdering
  <2>4. QED
    BY <1>2, <2>3
<1>5. QED
  BY <1>4 DEF Oldest

\* Rows of one step with different ids up to n are at most n.
LEMMA RowsAreFinite ==
  ASSUME NEW s \in Subs, NEW n \in Nat, NEW rows \in SUBSET Row,
         \A r \in rows : r.proc = s /\ r.id <= n,
         \A r, x \in rows : SameRow(r, x) => r = x
  PROVE  IsFiniteSet(rows)
<1> DEFINE f == [r \in rows |-> r.id]
<1>1. f \in [rows -> 1 .. n]
  BY DEF Row
<1>2. f \in Injection(rows, 1 .. n)
  BY <1>1 DEF Injection, IsInjective, SameRow
<1>3. IsFiniteSet(1 .. n)
  BY FS_Interval
<1>4. QED
  BY <1>2, <1>3, FS_Injection

\* initJob takes rows from the front: at least one, and with a row all older ones.
LEMMA TakenFacts ==
  ASSUME NEW rows \in SUBSET Row, IsFiniteSet(rows), NEW n \in Nat \ {0}
  PROVE  /\ Taken(rows, n) \subseteq rows
         /\ rows # {} => Taken(rows, n) # {}
         /\ \A r \in Taken(rows, n) : \A x \in rows : x.id < r.id => x \in Taken(rows, n)
<1> DEFINE older(r) == {x \in rows : x.id < r.id}
<1>1. \A r \in rows : IsFiniteSet(older(r)) /\ Cardinality(older(r)) \in Nat
  <2> TAKE r \in rows
  <2>1. older(r) \subseteq rows
    OBVIOUS
  <2>2. QED
    BY <2>1, FS_Subset, FS_CardinalityType
<1>2. ASSUME rows # {}
      PROVE  Taken(rows, n) # {}
  <2>1. PICK r \in rows : \A x \in rows : r.id <= x.id
    <3>1. Oldest(rows) # {}
      BY <1>2, SomeRowIsOldest
    <3>2. QED
      BY <3>1 DEF Oldest
  <2>2. older(r) = {}
    BY <2>1 DEF Row
  <2>3. Cardinality(older(r)) < n
    BY <2>2, FS_EmptySet
  <2>4. QED
    BY <2>3 DEF Taken
<1>3. ASSUME NEW r \in Taken(rows, n), NEW x \in rows, x.id < r.id
      PROVE  x \in Taken(rows, n)
  <2>1. r \in rows /\ Cardinality(older(r)) < n
    BY DEF Taken
  <2>2. older(x) \subseteq older(r)
    BY <1>3, <2>1 DEF Row
  <2>3. Cardinality(older(x)) <= Cardinality(older(r))
    <3>1. IsFiniteSet(older(r))
      BY <1>1, <2>1
    <3> HIDE DEF older
    <3>2. QED
      BY <2>2, <3>1, FS_Subset
  <2>4. Cardinality(older(x)) < n
    <3>1. Cardinality(older(x)) \in Nat /\ Cardinality(older(r)) \in Nat
      BY <1>1, <2>1
    <3> HIDE DEF older
    <3>2. QED
      BY <2>1, <2>3, <3>1
  <2>5. QED
    BY <2>4 DEF Taken
<1>4. QED
  BY <1>2, <1>3 DEF Taken

-----------------------------------------------------------------------------
(***************************************************************************)
(* The four ways the calls change the two tables: rows arrive, rows move   *)
(* to the archive, rows get another state, rows get a target.              *)
(***************************************************************************)
Alike(r, x) == r.proc = x.proc /\ r.id = x.id /\ r.src = x.src /\ r.tgt = x.tgt
Restated(queue, rows, state) ==
  (queue \ rows) \union {[r EXCEPT !.state = state] : r \in rows}

\* Each id handed out to a step is that of one row, in one of the two tables.
NoTwins(rows) == \A r, x \in rows : SameRow(r, x) => r = x
IdsKept(queue, filed, last) ==
  /\ \A r \in queue \union filed : r.id <= last[r.proc]
  /\ NoTwins(queue) /\ NoTwins(filed)
  /\ \A r \in queue, x \in filed : ~SameRow(r, x)
  /\ \A s \in Subs : \A i \in 1 .. last[s] :
       \E r \in queue \union filed : r.proc = s /\ r.id = i

\* A new row for a step of S has the next id of that step.
LEMMA NewRowHas ==
  ASSUME NEW S, NEW src, NEW r \in NewRows(S, src)
  PROVE  /\ r.proc \in S /\ r.id = lastId[r.proc] + 1 /\ r.src = src
         /\ ~Claimed(r) /\ r.state = "new"
         /\ r = NewRow(r.proc, src)
BY DEF NewRows, NewRow, Claimed

LEMMA ArrivalKeepsIds ==
  ASSUME lastId \in [Subs -> Nat], NEW queue \in SUBSET Row, NEW filed \in SUBSET Row,
         IdsKept(queue, filed, lastId), NEW S \in SUBSET Subs, NEW src \in Nat
  PROVE  IdsKept(queue \union NewRows(S, src), filed, CountIds(S))
<1> DEFINE new == NewRows(S, src)
           last == CountIds(S)
<1>1. /\ \A r \in new : r.proc \in S /\ r.id = lastId[r.proc] + 1
      /\ \A s \in S : \E r \in new : r.proc = s
      /\ NoTwins(new)
      /\ \A s \in S : last[s] = lastId[s] + 1
      /\ \A s \in Subs \ S : last[s] = lastId[s]
  <2>1. \A r \in new : r.proc \in S /\ r.id = lastId[r.proc] + 1 /\ r = NewRow(r.proc, src)
    BY NewRowHas
  <2>2. \A s \in S : NewRow(s, src) \in new /\ NewRow(s, src).proc = s
    BY DEF NewRows, NewRow
  <2>3. NoTwins(new)
    BY <2>1 DEF NoTwins, SameRow
  <2>4. QED
    BY <2>1, <2>2, <2>3 DEF CountIds
<1> HIDE DEF new, last
<1>2. \A r \in queue \union filed :
        r.proc \in Subs /\ r.id \in Nat \ {0} /\ r.id <= lastId[r.proc]
  BY DEF IdsKept, Row
<1>3. \A r \in queue \union filed, x \in new : ~SameRow(r, x) /\ ~SameRow(x, r)
  BY <1>1, <1>2 DEF SameRow
<1>4. \A r \in (queue \union new) \union filed : r.id <= last[r.proc]
  BY <1>1, <1>2
<1>5. NoTwins(queue \union new)
  BY <1>1, <1>3 DEF IdsKept, NoTwins
<1>6. \A r \in queue \union new, x \in filed : ~SameRow(r, x)
  BY <1>3 DEF IdsKept
<1>7. ASSUME NEW s \in Subs, NEW i \in 1 .. last[s]
      PROVE  \E r \in (queue \union new) \union filed : r.proc = s /\ r.id = i
  <2>1. CASE i \in 1 .. lastId[s]
    BY <2>1 DEF IdsKept
  <2>2. CASE i \notin 1 .. lastId[s]
    <3>1. lastId[s] \in Nat
      OBVIOUS
    <3>2. s \in S /\ i = lastId[s] + 1
      BY <1>1, <2>2, <3>1
    <3>3. QED
      BY <1>1, <3>2
  <2>3. QED
    BY <2>1, <2>2
<1>8. QED
  BY <1>4, <1>5, <1>6, <1>7 DEF IdsKept, new, last

LEMMA MoveKeepsIds ==
  ASSUME NEW queue, NEW filed, NEW last, IdsKept(queue, filed, last), NEW moved \in SUBSET queue
  PROVE  IdsKept(queue \ moved, filed \union moved, last)
<1>1. (queue \ moved) \union (filed \union moved) = queue \union filed
  OBVIOUS
<1>2. NoTwins(queue \ moved) /\ NoTwins(filed \union moved)
  BY DEF IdsKept, NoTwins, SameRow
<1>3. \A r \in queue \ moved, x \in filed \union moved : ~SameRow(r, x)
  BY DEF IdsKept, NoTwins
<1>4. QED
  BY <1>1, <1>2, <1>3 DEF IdsKept

\* Rows changed in place, all different still.
LEMMA ChangeKeepsIds ==
  ASSUME NEW queue, NEW filed, NEW last, IdsKept(queue, filed, last), NEW changed,
         \A r \in changed : \E x \in queue : SameRow(r, x),
         \A x \in queue : \E r \in changed : SameRow(r, x),
         NoTwins(changed)
  PROVE  IdsKept(changed, filed, last)
<1>1. \A r \in changed \union filed : r.id <= last[r.proc]
  BY DEF IdsKept, SameRow
<1>2. \A r \in changed, x \in filed : ~SameRow(r, x)
  BY DEF IdsKept, SameRow
<1>3. ASSUME NEW s \in Subs, NEW i \in 1 .. last[s]
      PROVE  \E r \in changed \union filed : r.proc = s /\ r.id = i
  <2>1. PICK x \in queue \union filed : x.proc = s /\ x.id = i
    BY DEF IdsKept
  <2>2. QED
    BY <2>1 DEF SameRow
<1>4. QED
  BY <1>1, <1>2, <1>3 DEF IdsKept

LEMMA RestateFacts ==
  ASSUME NEW queue \in SUBSET Row, NEW rows \in SUBSET queue, NEW state \in BatchState
  PROVE  /\ \A r \in Restated(queue, rows, state) : \E x \in queue :
              /\ Alike(r, x)
              /\ r = x \/ (x \in rows /\ r.state = state)
         /\ \A x \in queue : \E r \in Restated(queue, rows, state) : Alike(r, x)
         /\ NoTwins(queue) => NoTwins(Restated(queue, rows, state))
<1> DEFINE F(x) == [x EXCEPT !.state = state]
<1>1. \A x \in Row : Alike(F(x), x) /\ F(x).state = state
  BY DEF Alike, Row
<1> HIDE DEF F
<1>2. Restated(queue, rows, state) = (queue \ rows) \union {F(x) : x \in rows}
  BY DEF Restated, F
<1>3. \A x \in Row : Alike(x, x)
  BY DEF Alike
<1>4. \A r \in Restated(queue, rows, state) : \E x \in queue :
        Alike(r, x) /\ (r = x \/ (x \in rows /\ r.state = state))
  BY <1>1, <1>2, <1>3
<1>5. \A x \in queue : \E r \in Restated(queue, rows, state) : Alike(r, x)
  BY <1>1, <1>2, <1>3
<1>6. ASSUME NoTwins(queue), NEW r \in Restated(queue, rows, state),
             NEW x \in Restated(queue, rows, state), SameRow(r, x)
      PROVE  r = x
  <2>1. PICK q \in queue : SameRow(r, q) /\ r = IF q \in rows THEN F(q) ELSE q
    BY <1>1, <1>2 DEF SameRow, Alike
  <2>2. PICK y \in queue : SameRow(x, y) /\ x = IF y \in rows THEN F(y) ELSE y
    BY <1>1, <1>2 DEF SameRow, Alike
  <2>3. q = y
    BY <1>6, <2>1, <2>2 DEF NoTwins, SameRow
  <2>4. QED
    BY <2>1, <2>2, <2>3
<1>7. QED
  BY <1>4, <1>5, <1>6 DEF NoTwins

\* The rows a fresh run takes get its batch as target.
Claims(queue, rows, batch) == (queue \ rows) \union {Claim(r, batch) : r \in rows}
LEMMA ClaimFacts ==
  ASSUME NEW queue \in SUBSET Row, NEW rows \in SUBSET queue, NEW batch \in Nat
  PROVE  /\ \A r \in Claims(queue, rows, batch) :
              \/ r \in queue \ rows
              \/ \E x \in rows : /\ SameRow(r, x) /\ r.src = x.src /\ r.tgt = batch
                                 /\ Claimed(r)
         /\ \A x \in queue \ rows : x \in Claims(queue, rows, batch)
         /\ \A x \in rows : \E r \in Claims(queue, rows, batch) :
              SameRow(r, x) /\ r.src = x.src /\ r.tgt = batch /\ Claimed(r)
         /\ NoTwins(queue) => NoTwins(Claims(queue, rows, batch))
<1>1. \A x \in Row : LET r == Claim(x, batch)
                     IN  /\ r.proc = x.proc /\ r.id = x.id /\ r.src = x.src
                         /\ r.tgt = batch /\ Claimed(r)
  BY DEF Claim, Row, Claimed, NoBatch
<1>2. QED
  BY <1>1 DEF Claims, NoTwins, SameRow

-----------------------------------------------------------------------------
(***************************************************************************)
(* What each call does to the queue.                                       *)
(***************************************************************************)
IdsInv == TypeOK /\ IdsKept(bcq, archive, lastId)

\* The end of a step marks rows of the step; what it marks has a target, or is a
\* row of a step that nothing enqueues to.
LEMMA StepEffect ==
  ASSUME TypeOK, NEW s \in Subs, HaltStep(s) \/ TermStep(s)
  PROVE  /\ \E rows \in SUBSET bcq :
              /\ bcq' = Restated(bcq, rows, "processed")
              /\ \A r \in rows : r.proc = s
              /\ \A r \in rows : Claimed(r) \/ EnqueuingProcess[r.proc] = NoProcess
         /\ \E i \in Running(s), state \in {"success", "failed"} : execs' = Finish(s, i, state)
         /\ UNCHANGED <<batches, archive, lastId>>
<1>1. ASSUME NEW state \in {"success", "failed"}, NEW rows \in SUBSET bcq,
             \A r \in rows : Claimed(r) \/ EnqueuingProcess[r.proc] = NoProcess,
             EndStep(s, state, rows)
      PROVE  /\ bcq' = Restated(bcq, rows, "processed")
             /\ \E i \in Running(s) : execs' = Finish(s, i, state)
             /\ UNCHANGED <<batches, archive, lastId>>
  BY <1>1 DEF EndStep, MarkProcessed, Restated
<1>2. CASE HaltStep(s)
  <2> DEFINE rows == IF EnqueuingProcess[s] = NoProcess THEN RowsOf(s, bcq) ELSE ClaimedRowsOf(s)
  <2>1. rows \in SUBSET bcq
    BY DEF RowsOf, ClaimedRowsOf
  <2>2. \A r \in rows : r.proc = s /\ (Claimed(r) \/ EnqueuingProcess[r.proc] = NoProcess)
    BY DEF RowsOf, ClaimedRowsOf
  <2>3. EndStep(s, "success", rows)
    BY <1>2 DEF HaltStep
  <2> HIDE DEF rows
  <2>4. QED
    BY <1>1, <2>1, <2>2, <2>3
<1>3. CASE TermStep(s)
  <2>1. /\ ClaimedRowsOf(s) \in SUBSET bcq
        /\ \A r \in ClaimedRowsOf(s) : r.proc = s /\ Claimed(r)
        /\ EndStep(s, "failed", ClaimedRowsOf(s))
    BY <1>3 DEF TermStep, RowsOf, ClaimedRowsOf
  <2>2. QED
    BY <1>1, <2>1
<1>4. QED
  BY <1>2, <1>3

\* A rerun reopens rows it finds claimed.
LEMMA RerunEffect ==
  ASSUME NEW j \in Jobs, Rerun(j)
  PROVE  \E rows \in SUBSET bcq : bcq' = Restated(bcq, rows, "accessed")
<1> DEFINE rows == Oldest({r \in RowsOf(FirstSub(j), bcq) :
                             Claimed(r) /\ r.state \in {"new", "processed"}})
<1>1. rows \subseteq bcq
  BY DEF Oldest, RowsOf
<1>2. bcq' = Restated(bcq, rows, "accessed")
  BY DEF Rerun, ReopenRows, Restated
<1>3. QED
  BY <1>1, <1>2

TakenRows(j, maxBatch) ==
  UNION {Taken(RowsOf(s, SeededQueue(j)), maxBatch) : s \in SubsOf(j)}

\* A fresh run seeds the queue and takes the front rows of each step of the job.
LEMMA FreshEffect ==
  ASSUME IdsInv, NEW j \in Jobs, NEW maxBatch \in MaxBatchArgs, FreshRun(j, maxBatch)
  PROVE  LET queue == SeededQueue(j)
             rows  == TakenRows(j, maxBatch)
         IN  /\ queue \in SUBSET Row
             /\ IdsKept(queue, archive, lastId')
             /\ bcq' = Claims(queue, rows, Len(batches) + 1)
             /\ rows \subseteq {r \in queue : ParentOf[r.proc] = j}
             /\ \A r \in rows, x \in queue : x.proc = r.proc /\ x.id < r.id => x \in rows
             /\ \A x \in queue : ParentOf[x.proc] = j => \E r \in rows : r.proc = x.proc
<1> DEFINE queue == SeededQueue(j)
           rows  == TakenRows(j, maxBatch)
           part(s) == Taken(RowsOf(s, queue), maxBatch)
<1>1. /\ queue \in SUBSET Row /\ IdsKept(queue, archive, lastId')
      /\ lastId' \in [Subs -> Nat]
  <2>1. Seeds(j) \in SUBSET Subs /\ InitialBatch \in Nat
    BY SubsOfFacts DEF InitialBatch
  <2>2. /\ bcq \in SUBSET Row /\ archive \in SUBSET Row /\ lastId \in [Subs -> Nat]
        /\ IdsKept(bcq, archive, lastId)
    BY DEF IdsInv, TypeOK
  <2>3. queue = bcq \union NewRows(Seeds(j), InitialBatch) /\ lastId' = CountIds(Seeds(j))
    BY DEF FreshRun, SeededQueue
  <2>4. QED
    BY <2>1, <2>2, <2>3, ArrivalKeepsIds, NewRowsType
<1>2. \A s \in Subs : /\ RowsOf(s, queue) \in SUBSET Row
                      /\ IsFiniteSet(RowsOf(s, queue))
  <2> TAKE s \in Subs
  <2>1. RowsOf(s, queue) \in SUBSET Row
    BY <1>1 DEF RowsOf
  <2>2. /\ \A r \in RowsOf(s, queue) : r.proc = s /\ r.id <= lastId'[s]
        /\ \A r, x \in RowsOf(s, queue) : SameRow(r, x) => r = x
    BY <1>1 DEF RowsOf, IdsKept, NoTwins
  <2>3. lastId'[s] \in Nat
    BY <1>1
  <2> HIDE DEF queue
  <2>4. QED
    BY <2>1, <2>2, <2>3, RowsAreFinite
<1>3. maxBatch \in Nat \ {0}
  BY CatalogueAssumption
<1>4. \A s \in Subs :
        /\ part(s) \subseteq RowsOf(s, queue)
        /\ RowsOf(s, queue) # {} => part(s) # {}
        /\ \A r \in part(s) : \A x \in RowsOf(s, queue) : x.id < r.id => x \in part(s)
  <2> HIDE DEF queue
  <2>1. QED
    BY <1>2, <1>3, TakenFacts
<1>5. rows = UNION {part(s) : s \in SubsOf(j)} /\ SubsOf(j) \subseteq Subs
  BY SubsOfFacts DEF TakenRows
<1>6. bcq' = Claims(queue, rows, Len(batches) + 1)
  BY DEF FreshRun, ClaimRows, Claims, TakenRows
<1> HIDE DEF queue, rows, part
<1>7. \A r \in rows : r \in part(r.proc) /\ r.proc \in SubsOf(j) /\ r \in queue
  BY <1>4, <1>5 DEF RowsOf
<1>8. rows \subseteq {r \in queue : ParentOf[r.proc] = j}
  BY <1>7 DEF SubsOf
<1>9. ASSUME NEW r \in rows, NEW x \in queue, x.proc = r.proc, x.id < r.id
      PROVE  x \in rows
  <2>1. r \in part(r.proc) /\ r.proc \in SubsOf(j) /\ x \in RowsOf(r.proc, queue)
    BY <1>7, <1>9 DEF RowsOf
  <2>2. x \in part(r.proc)
    BY <1>4, <1>5, <1>9, <2>1
  <2>3. QED
    BY <1>5, <2>1, <2>2
<1>10. ASSUME NEW x \in queue, ParentOf[x.proc] = j
       PROVE  \E r \in rows : r.proc = x.proc
  <2>1. x.proc \in SubsOf(j) /\ x \in RowsOf(x.proc, queue)
    BY <1>1, <1>10 DEF SubsOf, RowsOf, Row
  <2>2. PICK r \in part(x.proc) : TRUE
    BY <1>4, <1>5, <2>1
  <2>3. r \in rows /\ r.proc = x.proc
    BY <1>4, <1>5, <2>1, <2>2 DEF RowsOf
  <2>4. QED
    BY <2>3
<1>11. QED
  BY <1>1, <1>6, <1>8, <1>9, <1>10 DEF queue, rows

-----------------------------------------------------------------------------
(***************************************************************************)
(* No row is lost or doubled.                                              *)
(***************************************************************************)

\* New rows for the steps of S, and nothing else.
LEMMA ArrivalStep ==
  ASSUME IdsInv, NEW S \in SUBSET Subs, NEW src \in Nat,
         NEW moved \in SUBSET bcq,
         bcq' = (bcq \ moved) \union NewRows(S, src),
         archive' = archive \union moved, lastId' = CountIds(S)
  PROVE  IdsKept(bcq', archive', lastId')
<1>1. /\ bcq \in SUBSET Row /\ archive \in SUBSET Row /\ lastId \in [Subs -> Nat]
      /\ IdsKept(bcq, archive, lastId)
  BY DEF IdsInv, TypeOK
<1>2. IdsKept(bcq \ moved, archive \union moved, lastId)
  BY <1>1, MoveKeepsIds
<1>3. bcq \ moved \in SUBSET Row /\ archive \union moved \in SUBSET Row
  BY <1>1
<1>4. QED
  BY <1>1, <1>2, <1>3, ArrivalKeepsIds

LEMMA RestateStep ==
  ASSUME IdsInv, NEW rows \in SUBSET bcq, NEW state \in BatchState,
         bcq' = Restated(bcq, rows, state), UNCHANGED <<archive, lastId>>
  PROVE  IdsKept(bcq', archive', lastId')
<1>1. bcq \in SUBSET Row /\ IdsKept(bcq, archive, lastId)
  BY DEF IdsInv, TypeOK
<1>2. /\ \A r \in bcq' : \E x \in bcq : SameRow(r, x)
      /\ \A x \in bcq : \E r \in bcq' : SameRow(r, x)
      /\ NoTwins(bcq')
  BY <1>1, RestateFacts DEF Alike, SameRow, IdsKept
<1>3. QED
  BY <1>1, <1>2, ChangeKeepsIds

\* What haltJob does to the tables, whichever batch it hands on.
LEMMA HaltEffect ==
  ASSUME TypeOK, NEW j \in Jobs, HaltJob(j)
  PROVE  \E src \in OutputBatches(j) \union {0} :
           /\ src \in Nat
           /\ Downstream(j) # {} => src \in OutputBatches(j) \ {NoBatch}
           /\ bcq' = (bcq \ Consumed(j)) \union NewRows(Downstream(j), src)
           /\ archive' = archive \union Consumed(j) /\ lastId' = CountIds(Downstream(j))
<1>1. PICK output \in OutputBatches(j) :
        /\ Downstream(j) # {} => output # NoBatch
        /\ bcq' = Unconsumed(j) \union NewRows(Downstream(j), output)
  BY DEF HaltJob, HandedOn
<1>2. output \in Nat \union {NoBatch}
  BY DEF OutputBatches, Oldest, RowsOf, TypeOK, Row
<1>3. archive' = archive \union Consumed(j) /\ lastId' = CountIds(Downstream(j))
  BY DEF HaltJob
<1>4. CASE Downstream(j) # {}
  BY <1>1, <1>2, <1>3, <1>4 DEF Unconsumed
<1>5. CASE Downstream(j) = {}
  <2>1. NewRows(Downstream(j), output) = NewRows(Downstream(j), 0)
    BY <1>5 DEF NewRows
  <2>2. QED
    BY <1>1, <1>3, <1>5, <2>1 DEF Unconsumed
<1>6. QED
  BY <1>4, <1>5

LEMMA FileEffect ==
  ASSUME TypeOK, NEW j \in Jobs, BatchEnqueue(j)
  PROVE  \E src \in Nat \ {0} :
           /\ src \in DOMAIN batches' /\ batches'[src] = NoRun
           /\ batches' = batches \/ batches' = Append(batches, NoRun)
           /\ bcq' = bcq \union NewRows(Downstream(j), src)
           /\ lastId' = CountIds(Downstream(j)) /\ UNCHANGED <<execs, archive>>
<1>1. batches \in Seq(Run) /\ Len(batches) \in Nat /\ DOMAIN batches = 1 .. Len(batches)
  BY DEF TypeOK
<1>2. CASE /\ batches' = Append(batches, NoRun)
           /\ bcq' = bcq \union NewRows(Downstream(j), Len(batches) + 1)
  <2>1. NoRun \in Run
    BY DEF Run
  <2>2. Len(batches) + 1 \in DOMAIN batches' /\ batches'[Len(batches) + 1] = NoRun
    BY <1>1, <1>2, <2>1
  <2>3. QED
    BY <1>1, <1>2, <2>2 DEF BatchEnqueue
<1>3. CASE /\ UNCHANGED batches
           /\ \E b \in FileBatches : bcq' = bcq \union NewRows(Downstream(j), b)
  <2>1. PICK b \in FileBatches : bcq' = bcq \union NewRows(Downstream(j), b)
    BY <1>3
  <2>2. b \in Nat \ {0} /\ b \in DOMAIN batches' /\ batches'[b] = NoRun
    BY <1>1, <1>3 DEF FileBatches
  <2>3. QED
    BY <1>3, <2>1, <2>2 DEF BatchEnqueue
<1>4. QED
  BY <1>2, <1>3 DEF BatchEnqueue

LEMMA IdsStep == IdsInv /\ TypeOK' /\ [Next]_vars => IdsInv'
<1> SUFFICES ASSUME IdsInv, TypeOK', [Next]_vars
             PROVE  IdsKept(bcq', archive', lastId')
  BY DEF IdsInv
<1>0. TypeOK /\ bcq \in SUBSET Row /\ IdsKept(bcq, archive, lastId)
  BY DEF IdsInv, TypeOK
<1>1. ASSUME NEW j \in Jobs, NEW maxBatch \in MaxBatchArgs, InitJob(j, maxBatch)
      PROVE  IdsKept(bcq', archive', lastId')
  <2>1. CASE FreshRun(j, maxBatch)
    <3> DEFINE queue == SeededQueue(j)
               rows  == TakenRows(j, maxBatch)
    <3>1. /\ queue \in SUBSET Row /\ IdsKept(queue, archive, lastId')
          /\ rows \in SUBSET queue /\ bcq' = Claims(queue, rows, Len(batches) + 1)
      BY <2>1, FreshEffect
    <3>2. Len(batches) + 1 \in Nat /\ archive' = archive
      BY <1>0, <1>1 DEF TypeOK, InitJob
    <3> HIDE DEF queue, rows
    <3>3. /\ \A r \in bcq' : \E x \in queue : SameRow(r, x)
          /\ \A x \in queue : \E r \in bcq' : SameRow(r, x)
          /\ NoTwins(bcq')
      BY <3>1, <3>2, ClaimFacts DEF SameRow, IdsKept
    <3>4. QED
      BY <3>1, <3>2, <3>3, ChangeKeepsIds
  <2>2. CASE Rerun(j)
    <3>1. UNCHANGED <<archive, lastId>>
      BY <1>1, <2>2 DEF InitJob, Rerun
    <3>2. PICK rows \in SUBSET bcq : bcq' = Restated(bcq, rows, "accessed")
      BY <2>2, RerunEffect
    <3>3. QED
      BY <3>1, <3>2, RestateStep DEF BatchState
  <2>3. QED
    BY <1>1, <2>1, <2>2 DEF InitJob
<1>2. ASSUME NEW j \in Jobs, HaltJob(j)
      PROVE  IdsKept(bcq', archive', lastId')
  <2>1. PICK src \in Nat :
          /\ bcq' = (bcq \ Consumed(j)) \union NewRows(Downstream(j), src)
          /\ archive' = archive \union Consumed(j) /\ lastId' = CountIds(Downstream(j))
    BY <1>0, <1>2, HaltEffect
  <2>2. Consumed(j) \in SUBSET bcq /\ Downstream(j) \in SUBSET Subs
    BY SubsOfFacts DEF Consumed, JobRows
  <2>3. QED
    BY <2>1, <2>2, ArrivalStep
<1>3. ASSUME NEW j \in Jobs, BatchEnqueue(j)
      PROVE  IdsKept(bcq', archive', lastId')
  <2>1. PICK src \in Nat : /\ bcq' = bcq \union NewRows(Downstream(j), src)
                           /\ lastId' = CountIds(Downstream(j)) /\ archive' = archive
    BY <1>0, <1>3, FileEffect
  <2>2. Downstream(j) \in SUBSET Subs
    BY SubsOfFacts
  <2> DEFINE none == {}
  <2>3. /\ bcq' = (bcq \ none) \union NewRows(Downstream(j), src)
        /\ archive' = archive \union none /\ none \in SUBSET bcq
    BY <2>1
  <2> HIDE DEF none
  <2>4. QED
    BY <2>1, <2>2, <2>3, ArrivalStep
<1>4. ASSUME NEW s \in Subs, HaltStep(s) \/ TermStep(s)
      PROVE  IdsKept(bcq', archive', lastId')
  BY <1>0, <1>4, StepEffect, RestateStep DEF BatchState
<1>5. CASE UNCHANGED <<bcq, archive, lastId>>
  BY <1>0, <1>5
<1>6. QED
  BY <1>1, <1>2, <1>3, <1>4, <1>5 DEF Next, vars, TermJob, InitStep

\* The numbers of the rows of a step, in the queue and in the archive, are as many
\* as the ids given out.
LEMMA IdsCount ==
  ASSUME IdsInv, NEW s \in Subs
  PROVE  LET waiting == RowsOf(s, bcq)
             filed   == RowsOf(s, archive)
         IN  /\ {r.id : r \in waiting} \intersect {r.id : r \in filed} = {}
             /\ {r.id : r \in waiting} \union {r.id : r \in filed} = 1 .. lastId[s]
             /\ Cardinality(waiting) + Cardinality(filed) = lastId[s]
<1> DEFINE waiting == RowsOf(s, bcq)
           filed   == RowsOf(s, archive)
           all     == waiting \union filed
           f       == [r \in all |-> r.id]
<1>1. /\ bcq \in SUBSET Row /\ archive \in SUBSET Row /\ lastId[s] \in Nat
      /\ IdsKept(bcq, archive, lastId)
  BY DEF IdsInv, TypeOK
<1>2. /\ all \in SUBSET Row
      /\ \A r \in all : r.proc = s /\ r.id \in 1 .. lastId[s]
      /\ \A r, x \in all : r.id = x.id => r = x
      /\ waiting \intersect filed = {}
      /\ \A r \in waiting, x \in filed : r.id # x.id
      /\ \A i \in 1 .. lastId[s] : \E r \in all : r.id = i
  BY <1>1 DEF RowsOf, IdsKept, NoTwins, SameRow, Row
<1> HIDE DEF waiting, filed
<1>3. IsFiniteSet(all) /\ IsFiniteSet(1 .. lastId[s]) /\ Cardinality(1 .. lastId[s]) = lastId[s]
  <2>1. \A r \in all : r.proc = s /\ r.id <= lastId[s]
    BY <1>2
  <2>2. \A r, x \in all : SameRow(r, x) => r = x
    BY <1>2 DEF SameRow
  <2> HIDE DEF all
  <2>3. IsFiniteSet(all)
    BY <1>1, <1>2, <2>1, <2>2, RowsAreFinite
  <2>4. QED
    BY <1>1, <2>3, FS_Interval
<1>4. Cardinality(all) = lastId[s]
  <2>1. f \in Surjection(all, 1 .. lastId[s]) /\ f \in Injection(all, 1 .. lastId[s])
    BY <1>2 DEF Surjection, Injection, IsInjective
  <2> HIDE DEF f, all
  <2>2. QED
    BY <1>3, <2>1, FS_Surjection
<1>5. Cardinality(waiting) + Cardinality(filed) = lastId[s]
  <2>1. IsFiniteSet(waiting) /\ IsFiniteSet(filed)
    BY <1>3, FS_Subset
  <2>2. Cardinality(waiting \intersect filed) = 0
    BY <1>2, FS_EmptySet
  <2>3. Cardinality(waiting) \in Nat /\ Cardinality(filed) \in Nat
    BY <2>1, FS_CardinalityType
  <2>4. Cardinality(all) = Cardinality(waiting) + Cardinality(filed) - 0
    BY <2>1, <2>2, FS_Union
  <2>5. QED
    BY <1>4, <2>3, <2>4
<1>6. QED
  BY <1>2, <1>5 DEF waiting, filed

LEMMA IdsInvariant == Spec => []IdsInv
<1>1. Init => IdsKept(bcq, archive, lastId)
  BY DEF Init, IdsKept, NoTwins
<1>2. QED
  BY <1>1, IdsStep, TypeCorrect, PTL DEF Spec, IdsInv

\* Every row handed out to a step is in the queue or in the archive, once: the
\* copying and deleting of haltJob loses none, whatever arrives meanwhile.
THEOREM NoRowLost == Spec => []Conservation
<1>1. IdsInv => Conservation
  BY IdsCount DEF Conservation
<1>2. QED
  BY <1>1, IdsInvariant, PTL

-----------------------------------------------------------------------------
(***************************************************************************)
(* Rows are claimed in order.                                              *)
(***************************************************************************)
OrderKept(queue, filed) ==
  \A r \in queue : ~Claimed(r) =>
    \A x \in queue \union filed : x.proc = r.proc /\ x.id > r.id => ~Claimed(x)

\* What a step of its own job feeds itself is claimed at once, and nothing is
\* marked processed that was not claimed.
Marked(r) == EnqueuingProcess[r.proc] = NoProcess \/ r.state = "processed"
MarkedAreClaimed == \A r \in bcq : Marked(r) => Claimed(r)
OrderInv == IdsInv /\ OrderKept(bcq, archive) /\ MarkedAreClaimed

LEMMA ArrivalKeepsOrder ==
  ASSUME lastId \in [Subs -> Nat], NEW queue \in SUBSET Row, NEW filed \in SUBSET Row,
         IdsKept(queue, filed, lastId), OrderKept(queue, filed),
         NEW S \in SUBSET Subs, NEW src \in Nat
  PROVE  OrderKept(queue \union NewRows(S, src), filed)
<1> DEFINE new == NewRows(S, src)
<1>1. \A r \in new : r.proc \in S /\ r.id = lastId[r.proc] + 1 /\ ~Claimed(r)
  BY NewRowHas
<1>2. \A r \in queue \union filed :
        r.proc \in Subs /\ r.id \in Nat /\ r.id <= lastId[r.proc]
  BY DEF IdsKept, Row
<1> HIDE DEF new
<1>3. SUFFICES ASSUME NEW r \in queue \union new, ~Claimed(r),
                      NEW x \in (queue \union new) \union filed, x.proc = r.proc, x.id > r.id
               PROVE  ~Claimed(x)
  BY DEF OrderKept, new
<1>4. CASE x \in new
  BY <1>1, <1>4
<1>5. CASE x \notin new /\ r \in new
  <2>1. x.id <= lastId[x.proc] /\ r.id = lastId[r.proc] + 1 /\ lastId[x.proc] \in Nat
    BY <1>1, <1>2, <1>5
  <2>2. QED
    BY <1>2, <1>3, <1>5, <2>1
<1>6. CASE x \notin new /\ r \notin new
  BY <1>3, <1>6 DEF OrderKept
<1>7. QED
  BY <1>4, <1>5, <1>6

LEMMA ClaimKeepsOrder ==
  ASSUME NEW queue \in SUBSET Row, NEW filed \in SUBSET Row, OrderKept(queue, filed),
         NEW rows \in SUBSET queue, NEW batch \in Nat,
         \A r \in rows, x \in queue : x.proc = r.proc /\ x.id < r.id => x \in rows
  PROVE  OrderKept(Claims(queue, rows, batch), filed)
<1> DEFINE after == Claims(queue, rows, batch)
<1>1. \A r \in after : r \in queue \ rows
                         \/ \E x \in rows : SameRow(r, x) /\ Claimed(r)
  BY ClaimFacts
<1> HIDE DEF after
<1>2. SUFFICES ASSUME NEW r \in after, ~Claimed(r),
                      NEW x \in after \union filed, x.proc = r.proc, x.id > r.id, Claimed(x)
               PROVE  FALSE
  BY DEF OrderKept, after
<1>3. r \in queue \ rows /\ r.id \in Nat
  BY <1>1, <1>2 DEF Row
<1>4. CASE x \in queue \union filed
  BY <1>2, <1>3, <1>4 DEF OrderKept
<1>5. CASE x \notin queue \union filed
  <2>1. PICK y \in rows : SameRow(x, y)
    BY <1>1, <1>2, <1>5
  <2>2. r.proc = y.proc /\ r.id < y.id
    BY <1>2, <1>3, <2>1 DEF SameRow, Row
  <2>3. QED
    BY <1>3, <2>2
<1>6. QED
  BY <1>4, <1>5

LEMMA OrderStep == OrderInv /\ IdsInv' /\ [Next]_vars => OrderInv'
<1> SUFFICES ASSUME OrderInv, IdsInv', [Next]_vars
             PROVE  OrderKept(bcq', archive') /\ MarkedAreClaimed'
  BY DEF OrderInv
<1>0. /\ IdsInv /\ TypeOK /\ bcq \in SUBSET Row /\ archive \in SUBSET Row
      /\ lastId \in [Subs -> Nat]
      /\ IdsKept(bcq, archive, lastId) /\ OrderKept(bcq, archive) /\ MarkedAreClaimed
  BY DEF OrderInv, IdsInv, TypeOK
<1>1. ASSUME NEW j \in Jobs, NEW maxBatch \in MaxBatchArgs, InitJob(j, maxBatch),
             FreshRun(j, maxBatch)
      PROVE  OrderKept(bcq', archive') /\ MarkedAreClaimed'
  <2> DEFINE queue == SeededQueue(j)
             rows  == TakenRows(j, maxBatch)
  <2>1. /\ queue \in SUBSET Row /\ rows \in SUBSET queue
        /\ bcq' = Claims(queue, rows, Len(batches) + 1)
        /\ \A r \in rows, x \in queue : x.proc = r.proc /\ x.id < r.id => x \in rows
        /\ \A x \in queue : ParentOf[x.proc] = j => \E r \in rows : r.proc = x.proc
    BY <1>0, <1>1, FreshEffect
  <2>2. Len(batches) + 1 \in Nat /\ archive' = archive
    BY <1>0, <1>1 DEF TypeOK, InitJob
  <2>3. /\ queue = bcq \union NewRows(Seeds(j), InitialBatch)
        /\ Seeds(j) \in SUBSET Subs /\ InitialBatch \in Nat
    BY SubsOfFacts DEF SeededQueue, InitialBatch
  <2> HIDE DEF queue, rows
  <2>4. OrderKept(queue, archive)
    BY <1>0, <2>3, ArrivalKeepsOrder
  <2>5. OrderKept(bcq', archive')
    BY <1>0, <2>1, <2>2, <2>4, ClaimKeepsOrder
  <2>6. ASSUME NEW r \in bcq', Marked(r), ~Claimed(r)
        PROVE  FALSE
    <3>1. r \in queue \ rows
      BY <2>1, <2>2, <2>6, ClaimFacts
    <3>2. r \notin bcq
      BY <1>0, <2>6 DEF MarkedAreClaimed
    <3>3. r \in NewRows(Seeds(j), InitialBatch)
      BY <2>3, <3>1, <3>2
    <3>4. r.proc \in Seeds(j) /\ \A x \in bcq : x.proc # r.proc
      <4>1. r.proc \in Seeds(j)
        BY <3>3, NewRowHas
      <4>2. QED
        BY <4>1 DEF Seeds, RowsOf
    <3>5. PICK x \in rows : x.proc = r.proc
      <4>1. ParentOf[r.proc] = j
        BY <3>4 DEF Seeds, SubsOf
      <4>2. QED
        BY <2>1, <3>1, <4>1
    <3>6. x \in NewRows(Seeds(j), InitialBatch)
      BY <2>1, <2>3, <3>4, <3>5
    <3>7. x = r
      BY <3>3, <3>5, <3>6, NewRowHas
    <3>8. QED
      BY <3>1, <3>5, <3>7
  <2>7. QED
    BY <2>5, <2>6 DEF MarkedAreClaimed, Marked
<1>2. ASSUME NEW rows \in SUBSET bcq, NEW state \in BatchState,
             bcq' = Restated(bcq, rows, state), archive' = archive,
             \A r \in rows : state = "processed" => Claimed(r)
      PROVE  OrderKept(bcq', archive') /\ MarkedAreClaimed'
  <2>1. \A r \in bcq' : \E x \in bcq :
          Alike(r, x) /\ (r = x \/ (x \in rows /\ r.state = state))
    BY <1>0, <1>2, RestateFacts
  <2>2. OrderKept(bcq', archive')
    BY <1>0, <1>2, <2>1 DEF OrderKept, Alike, Claimed
  <2>3. MarkedAreClaimed'
    BY <1>0, <1>2, <2>1 DEF MarkedAreClaimed, Marked, Alike, Claimed
  <2>4. QED
    BY <2>2, <2>3
<1>3. ASSUME NEW j \in Jobs, Rerun(j), archive' = archive
      PROVE  OrderKept(bcq', archive') /\ MarkedAreClaimed'
  BY <1>2, <1>3, RerunEffect DEF BatchState
<1>4. ASSUME NEW s \in Subs, HaltStep(s) \/ TermStep(s)
      PROVE  OrderKept(bcq', archive') /\ MarkedAreClaimed'
  <2>1. PICK rows \in SUBSET bcq :
          /\ bcq' = Restated(bcq, rows, "processed") /\ archive' = archive
          /\ \A r \in rows : Claimed(r) \/ EnqueuingProcess[r.proc] = NoProcess
    BY <1>0, <1>4, StepEffect
  <2>2. \A r \in rows : Claimed(r)
    BY <1>0, <2>1 DEF MarkedAreClaimed, Marked
  <2>3. QED
    BY <1>2, <2>1, <2>2 DEF BatchState
<1>5. ASSUME NEW j \in Jobs, NEW src \in Nat, NEW moved \in SUBSET bcq,
             bcq' = (bcq \ moved) \union NewRows(Downstream(j), src),
             archive' = archive \union moved
      PROVE  OrderKept(bcq', archive') /\ MarkedAreClaimed'
  <2>1. /\ bcq \ moved \in SUBSET Row /\ archive \union moved \in SUBSET Row
        /\ OrderKept(bcq \ moved, archive \union moved)
        /\ IdsKept(bcq \ moved, archive \union moved, lastId)
    BY <1>0, MoveKeepsIds DEF OrderKept
  <2>2. Downstream(j) \in SUBSET Subs
    BY SubsOfFacts
  <2>3. OrderKept(bcq', archive')
    BY <1>0, <1>5, <2>1, <2>2, ArrivalKeepsOrder
  <2>4. \A r \in NewRows(Downstream(j), src) : ~Marked(r)
    <3>1. \A r \in NewRows(Downstream(j), src) : r.proc \in Downstream(j) /\ r.state = "new"
      BY NewRowHas
    <3>2. j # NoProcess
      BY CatalogueAssumption DEF NoProcess
    <3>3. QED
      BY <3>1, <3>2 DEF Marked, Downstream
  <2>5. MarkedAreClaimed'
    BY <1>0, <1>5, <2>4 DEF MarkedAreClaimed, Marked
  <2>6. QED
    BY <2>3, <2>5
<1>6. ASSUME NEW j \in Jobs, HaltJob(j)
      PROVE  OrderKept(bcq', archive') /\ MarkedAreClaimed'
  <2>1. Consumed(j) \in SUBSET bcq
    BY DEF Consumed, JobRows
  <2>2. QED
    BY <1>0, <1>5, <1>6, <2>1, HaltEffect
<1>7. ASSUME NEW j \in Jobs, BatchEnqueue(j)
      PROVE  OrderKept(bcq', archive') /\ MarkedAreClaimed'
  <2>1. PICK src \in Nat : /\ bcq' = bcq \union NewRows(Downstream(j), src)
                           /\ archive' = archive
    BY <1>0, <1>7, FileEffect
  <2> DEFINE none == {}
  <2>2. /\ bcq' = (bcq \ none) \union NewRows(Downstream(j), src)
        /\ archive' = archive \union none /\ none \in SUBSET bcq
    BY <2>1
  <2> HIDE DEF none
  <2>3. QED
    BY <1>5, <2>2
<1>8. CASE UNCHANGED <<bcq, archive>>
  BY <1>0, <1>8 DEF MarkedAreClaimed
<1>9. QED
  BY <1>1, <1>3, <1>4, <1>6, <1>7, <1>8 DEF Next, vars, InitJob, TermJob, InitStep

LEMMA OrderInvariant == Spec => []OrderInv
<1>1. Init => OrderKept(bcq, archive) /\ MarkedAreClaimed
  BY DEF Init, OrderKept, MarkedAreClaimed
<1>2. QED
  BY <1>1, OrderStep, IdsInvariant, PTL DEF Spec, OrderInv

\* Batches are consumed in the order they came, although the query that picks the
\* rows of a run has no order but that of the ids.
THEOREM ConsumedInOrder == Spec => []InOrder
<1>1. OrderInv => InOrder
  BY DEF OrderInv, OrderKept, InOrder
<1>2. QED
  BY <1>1, OrderInvariant, PTL

-----------------------------------------------------------------------------
(***************************************************************************)
(* A row keeps its source, and its target once it has one.                 *)
(***************************************************************************)
Descends(x, y) == SameRow(x, y) /\ x.src = y.src /\ (Claimed(y) => x.tgt = y.tgt)
Sourced(r, table) ==
  IF EnqueuingProcess[r.proc] = NoProcess THEN r.src = InitialBatch
  ELSE /\ r.src \in DOMAIN table
       /\ table[r.src] = NoRun \/ table[r.src].job = EnqueuingProcess[r.proc]
Fresh(x) == x.id = lastId[x.proc] + 1 /\ Sourced(x, batches')

\* All claimed rows of a job aim at the output of its latest run.
BatchInv == OrderInv /\ RunOwnsBatch /\ OneTarget /\ ArchivedConsumed /\ Provenance

\* A batch that is handed on was made by the job that hands it on.
LEMMA OutputFacts ==
  ASSUME RunOwnsBatch, bcq \in SUBSET Row, NEW j \in Jobs,
         NEW src \in OutputBatches(j), src # NoBatch
  PROVE  src \in DOMAIN batches /\ batches[src].job = j
<1>1. PICK r \in bcq : r.proc \in SubsOf(j) /\ r.tgt = src
  BY DEF OutputBatches, Oldest, RowsOf
<1>2. Claimed(r) /\ ParentOf[r.proc] = j
  BY <1>1 DEF Claimed, SubsOf
<1>3. /\ src \in DOMAIN batches
      /\ batches[src] = [job |-> j, run |-> Len(execs[j])]
  BY <1>1, <1>2 DEF RunOwnsBatch
<1>4. QED
  BY <1>3

\* What every call does to a row: what is there descends from what was there, or
\* is new.
LEMMA Descent ==
  ASSUME OrderInv, RunOwnsBatch, TypeOK', [Next]_vars
  PROVE  \A x \in bcq' \union archive' :
           (\E y \in bcq \union archive : Descends(x, y)) \/ Fresh(x)
<1> DEFINE Known(x) == \E y \in bcq \union archive : Descends(x, y)
<1>0. /\ IdsInv /\ TypeOK /\ bcq \in SUBSET Row /\ archive \in SUBSET Row
      /\ lastId \in [Subs -> Nat] /\ IdsKept(bcq, archive, lastId)
  BY DEF OrderInv, IdsInv, TypeOK
<1>1. \A x \in bcq \union archive : Known(x)
  BY DEF Descends, SameRow
<1>2. ASSUME NEW rows \in SUBSET bcq, NEW state \in BatchState,
             bcq' = Restated(bcq, rows, state), archive' = archive,
             NEW x \in bcq' \union archive'
      PROVE  Known(x)
  <2>1. CASE x \in archive
    BY <1>1, <2>1
  <2>2. CASE x \in bcq'
    <3>1. PICK y \in bcq : Alike(x, y)
      BY <1>0, <1>2, <2>2, RestateFacts
    <3>2. QED
      BY <3>1 DEF Descends, Alike, SameRow
  <2>3. QED
    BY <1>2, <2>1, <2>2
<1>3. ASSUME NEW j \in Jobs, NEW maxBatch \in MaxBatchArgs, InitJob(j, maxBatch),
             FreshRun(j, maxBatch), NEW x \in bcq' \union archive'
      PROVE  Known(x) \/ Fresh(x)
  <2> DEFINE queue == SeededQueue(j)
             rows  == TakenRows(j, maxBatch)
  <2>1. /\ queue \in SUBSET Row /\ rows \in SUBSET queue
        /\ bcq' = Claims(queue, rows, Len(batches) + 1)
        /\ \A r \in rows : ParentOf[r.proc] = j
    BY <1>0, <1>3, FreshEffect
  <2>2. Len(batches) + 1 \in Nat /\ archive' = archive
    BY <1>0, <1>3 DEF TypeOK, InitJob
  <2>3. queue = bcq \union NewRows(Seeds(j), InitialBatch)
    BY DEF SeededQueue
  <2>4. \A y \in NewRows(Seeds(j), InitialBatch) : Fresh(y)
    <3>1. \A y \in NewRows(Seeds(j), InitialBatch) :
            y.proc \in Seeds(j) /\ y.id = lastId[y.proc] + 1 /\ y.src = InitialBatch
      BY NewRowHas
    <3>2. \A s \in Seeds(j) : EnqueuingProcess[s] = NoProcess
      BY DEF Seeds
    <3>3. QED
      BY <3>1, <3>2 DEF Fresh, Sourced
  <2> HIDE DEF queue, rows
  <2>5. CASE x \in archive
    BY <1>1, <2>5
  <2>6. CASE x \in queue
    BY <1>1, <2>3, <2>4, <2>6
  <2>7. CASE x \notin queue \union archive
    <3>1. PICK y \in rows : SameRow(x, y) /\ x.src = y.src
      BY <1>3, <2>1, <2>2, <2>7, ClaimFacts
    <3>2. CASE y \in bcq
      <4>1. ~Claimed(y)
        BY <1>3, <2>1, <3>2 DEF FreshRun, IsRerun, JobRows
      <4>2. QED
        BY <3>1, <3>2, <4>1 DEF Descends
    <3>3. CASE y \notin bcq
      <4>1. Fresh(y)
        BY <2>1, <2>3, <2>4, <3>3
      <4>2. QED
        BY <3>1, <4>1 DEF Fresh, Sourced, SameRow
    <3>4. QED
      BY <3>2, <3>3
  <2>8. QED
    BY <2>5, <2>6, <2>7
<1>4. ASSUME NEW j \in Jobs, NEW maxBatch \in MaxBatchArgs, InitJob(j, maxBatch),
             Rerun(j), NEW x \in bcq' \union archive'
      PROVE  Known(x)
  <2>1. archive' = archive
    BY <1>4 DEF InitJob
  <2>2. PICK rows \in SUBSET bcq : bcq' = Restated(bcq, rows, "accessed")
    BY <1>4, RerunEffect
  <2>3. QED
    BY <1>2, <1>4, <2>1, <2>2 DEF BatchState
<1>5. ASSUME NEW s \in Subs, HaltStep(s) \/ TermStep(s), NEW x \in bcq' \union archive'
      PROVE  Known(x)
  <2>1. PICK rows \in SUBSET bcq :
          bcq' = Restated(bcq, rows, "processed") /\ archive' = archive
    BY <1>0, <1>5, StepEffect
  <2>2. QED
    BY <1>2, <1>5, <2>1 DEF BatchState
<1>6. ASSUME NEW j \in Jobs, NEW src, NEW x \in NewRows(Downstream(j), src),
             src \in DOMAIN batches', batches'[src] = NoRun \/ batches'[src].job = j
      PROVE  Fresh(x)
  <2>1. x.proc \in Downstream(j) /\ x.id = lastId[x.proc] + 1 /\ x.src = src
    BY NewRowHas
  <2>2. EnqueuingProcess[x.proc] = j /\ j # NoProcess
    BY <2>1, CatalogueAssumption DEF Downstream, NoProcess
  <2>3. QED
    BY <1>6, <2>1, <2>2 DEF Fresh, Sourced
<1>7. ASSUME NEW j \in Jobs, HaltJob(j), NEW x \in bcq' \union archive'
      PROVE  Known(x) \/ Fresh(x)
  <2>1. PICK src \in Nat :
          /\ Downstream(j) # {} => src \in OutputBatches(j) \ {NoBatch}
          /\ bcq' = (bcq \ Consumed(j)) \union NewRows(Downstream(j), src)
          /\ archive' = archive \union Consumed(j)
    BY <1>0, <1>7, HaltEffect
  <2>2. Consumed(j) \subseteq bcq /\ batches' = batches
    BY <1>7 DEF Consumed, JobRows, HaltJob
  <2>3. CASE x \in bcq \union archive
    BY <1>1, <2>3
  <2>4. CASE x \in NewRows(Downstream(j), src)
    <3>1. x.proc \in Downstream(j)
      BY <2>4, NewRowHas
    <3>2. src \in DOMAIN batches' /\ batches'[src].job = j
      BY <1>0, <2>1, <2>2, <3>1, OutputFacts
    <3>3. QED
      BY <1>6, <2>4, <3>2
  <2>5. QED
    BY <1>7, <2>1, <2>2, <2>3, <2>4
<1>8. ASSUME NEW j \in Jobs, BatchEnqueue(j), NEW x \in bcq' \union archive'
      PROVE  Known(x) \/ Fresh(x)
  <2>1. PICK src \in Nat :
          /\ src \in DOMAIN batches' /\ batches'[src] = NoRun
          /\ bcq' = bcq \union NewRows(Downstream(j), src) /\ archive' = archive
    BY <1>0, <1>8, FileEffect
  <2>2. QED
    BY <1>1, <1>6, <1>8, <2>1
<1>9. CASE UNCHANGED <<bcq, archive>>
  BY <1>1, <1>9
<1>10. QED
  BY <1>3, <1>4, <1>5, <1>7, <1>8, <1>9 DEF Next, vars, InitJob, TermJob, InitStep

\* No batch changes hands: only a rerun writes a batch again, for the job it had.
LEMMA BatchesKept ==
  ASSUME RunOwnsBatch, TypeOK, [Next]_vars
  PROVE  \A b \in DOMAIN batches :
           /\ b \in DOMAIN batches'
           /\ batches'[b] = batches[b] \/ batches'[b].job = batches[b].job
           /\ batches[b] = NoRun => batches'[b] = NoRun
<1> DEFINE Kept == \A b \in DOMAIN batches :
                     /\ b \in DOMAIN batches'
                     /\ batches'[b] = batches[b] \/ batches'[b].job = batches[b].job
                     /\ batches[b] = NoRun => batches'[b] = NoRun
<1>0. batches \in Seq(Run) /\ bcq \in SUBSET Row
  BY DEF TypeOK
<1>1. ASSUME NEW run, batches' = Append(batches, run)
      PROVE  Kept
  BY <1>0, <1>1
<1>2. ASSUME NEW j \in Jobs, Rerun(j), OldestClaimed(j)
      PROVE  Kept
  <2>1. ASSUME NEW s \in SubsOf(j), NEW r \in Oldest(RowsOf(s, bcq)), r.tgt \in DOMAIN batches
        PROVE  batches[r.tgt] = [job |-> j, run |-> Len(execs[j])]
    <3>1. Claimed(r) /\ r \in bcq /\ r.proc = s
      BY <1>2 DEF OldestClaimed, Oldest, RowsOf
    <3>2. ParentOf[r.proc] = j
      BY <3>1 DEF SubsOf
    <3>3. QED
      BY <3>1, <3>2 DEF RunOwnsBatch
  <2>2. \A b \in DOMAIN batches :
          \/ batches'[b] = batches[b]
          \/ /\ batches'[b] = [job |-> j, run |-> Len(execs[j]) + 1]
             /\ batches[b] = [job |-> j, run |-> Len(execs[j])]
    BY <1>2, <2>1 DEF Rerun, TakeOver
  <2>3. DOMAIN batches' = DOMAIN batches
    BY <1>2 DEF Rerun, TakeOver
  <2>4. \A n : [job |-> j, run |-> n] # NoRun
    BY CatalogueAssumption DEF NoRun, NoProcess
  <2>5. QED
    BY <2>2, <2>3, <2>4
<1>3. CASE UNCHANGED batches
  BY <1>3
<1>4. ASSUME NEW j \in Jobs, BatchEnqueue(j)
      PROVE  Kept
  BY <1>1, <1>3, <1>4 DEF BatchEnqueue
<1>5. ASSUME NEW j \in Jobs, NEW maxBatch \in MaxBatchArgs, InitJob(j, maxBatch)
      PROVE  Kept
  BY <1>1, <1>2, <1>5 DEF InitJob, AcceptsInitJob, CanClaim, FreshRun, Rerun
<1>6. QED
  BY <1>3, <1>4, <1>5
     DEF Next, vars, HaltJob, TermJob, InitStep, HaltStep, TermStep, EndStep

\* The target of a claimed row is the same for ever, through failures and reruns
\* and in the archive.
LEMMA TargetStep == OrderInv /\ RunOwnsBatch /\ TypeOK' /\ [Next]_vars =>
  \A r \in bcq, x \in bcq' \union archive' : SameRow(r, x) /\ Claimed(r) => x.tgt = r.tgt
<1> SUFFICES ASSUME OrderInv, RunOwnsBatch, TypeOK', [Next]_vars,
                    NEW r \in bcq, NEW x \in bcq' \union archive', SameRow(r, x), Claimed(r)
             PROVE  x.tgt = r.tgt
  OBVIOUS
<1>0. IdsKept(bcq, archive, lastId) /\ bcq \in SUBSET Row /\ lastId \in [Subs -> Nat]
  BY DEF OrderInv, IdsInv, TypeOK
<1>1. CASE Fresh(x)
  <2>1. r.id = lastId[r.proc] + 1 /\ r.id <= lastId[r.proc] /\ lastId[r.proc] \in Nat
    BY <1>0, <1>1 DEF Fresh, SameRow, IdsKept, Row
  <2>2. QED
    BY <2>1
<1>2. CASE \E y \in bcq \union archive : Descends(x, y)
  <2>1. PICK y \in bcq \union archive : Descends(x, y)
    BY <1>2
  <2>2. r = y
    BY <1>0, <2>1 DEF Descends, SameRow, IdsKept, NoTwins
  <2>3. QED
    BY <2>1, <2>2 DEF Descends
<1>3. QED
  BY <1>1, <1>2, Descent

-----------------------------------------------------------------------------
(***************************************************************************)
(* What is claimed aims at the batch of the latest run.                    *)
(***************************************************************************)

\* Only initJob adds to the history of a job.
LEMMA RunCount ==
  ASSUME TypeOK, [Next]_vars, NEW k \in Jobs
  PROVE  \/ Len(execs'[k]) = Len(execs[k])
         \/ \E maxBatch \in MaxBatchArgs : InitJob(k, maxBatch)
<1>0. k \in Processes
  BY DEF Processes
<1>1. ASSUME NEW p \in Processes, p # k,
             \/ \E n \in Nat : execs' = Start(p, n)
             \/ \E i \in Running(p), st \in {"success", "failed"} : execs' = Finish(p, i, st)
      PROVE  Len(execs'[k]) = Len(execs[k])
  BY <1>0, <1>1, RunningAfterStart, RunningAfterFinish
<1>2. ASSUME NEW j \in Jobs, NEW maxBatch \in MaxBatchArgs, InitJob(j, maxBatch), j # k
      PROVE  Len(execs'[k]) = Len(execs[k])
  <2>1. j \in Processes /\ Len(execs[j]) + 1 \in Nat
    BY ExecFacts DEF Processes
  <2>2. QED
    BY <1>1, <1>2, <2>1 DEF InitJob
<1>3. ASSUME NEW j \in Jobs, HaltJob(j) \/ TermJob(j)
      PROVE  Len(execs'[k]) = Len(execs[k])
  <2>1. PICK i \in Running(j), st \in {"success", "failed"} : execs' = Finish(j, i, st)
    BY <1>3 DEF HaltJob, TermJob
  <2>2. CASE j = k
    BY <1>0, <2>1, <2>2, RunningAfterFinish
  <2>3. CASE j # k
    BY <1>1, <2>1, <2>3 DEF Processes
  <2>4. QED
    BY <2>2, <2>3
<1>4. ASSUME NEW s \in Subs, InitStep(s) \/ HaltStep(s) \/ TermStep(s)
      PROVE  Len(execs'[k]) = Len(execs[k])
  <2>1. s \in Processes /\ s # k /\ Len(execs[ParentOf[s]]) \in Nat
    BY ParentFacts, ExecFacts
  <2>2. CASE InitStep(s)
    BY <1>1, <2>1, <2>2 DEF InitStep
  <2>3. CASE HaltStep(s) \/ TermStep(s)
    BY <1>1, <2>1, <2>3, StepEffect
  <2>4. QED
    BY <1>4, <2>2, <2>3
<1>5. CASE UNCHANGED execs
  BY <1>5
<1>6. QED
  BY <1>2, <1>3, <1>4, <1>5 DEF Next, vars, BatchEnqueue

\* A call that claims nothing leaves the claims as they are.
LEMMA TargetsStay ==
  ASSUME TypeOK, RunOwnsBatch, OneTarget,
         \A j \in Jobs : Len(execs'[j]) = Len(execs[j]),
         \A b \in DOMAIN batches : b \in DOMAIN batches' /\ batches'[b] = batches[b],
         \A x \in bcq' : Claimed(x) =>
           \E r \in bcq : r.proc = x.proc /\ r.tgt = x.tgt
  PROVE  RunOwnsBatch' /\ OneTarget'
<1>0. /\ \A r \in bcq : ParentOf[r.proc] \in Jobs
      /\ \A r, x : r.tgt = x.tgt => (Claimed(r) <=> Claimed(x))
  BY CatalogueAssumption DEF TypeOK, Row, Claimed
<1>1. ASSUME NEW x \in bcq', Claimed(x)
      PROVE  /\ x.tgt \in DOMAIN batches'
             /\ batches'[x.tgt] = [job |-> ParentOf[x.proc],
                                   run |-> Len(execs'[ParentOf[x.proc]])]
  <2>1. PICK r \in bcq : r.proc = x.proc /\ r.tgt = x.tgt /\ Claimed(r)
    BY <1>0, <1>1
  <2>2. QED
    BY <1>0, <2>1 DEF RunOwnsBatch
<1>2. ASSUME NEW x \in bcq', NEW y \in bcq', Claimed(x), Claimed(y),
             ParentOf[x.proc] = ParentOf[y.proc]
      PROVE  x.tgt = y.tgt
  <2>1. PICK r \in bcq : r.proc = x.proc /\ r.tgt = x.tgt /\ Claimed(r)
    BY <1>0, <1>2
  <2>2. PICK q \in bcq : q.proc = y.proc /\ q.tgt = y.tgt /\ Claimed(q)
    BY <1>0, <1>2
  <2>3. QED
    BY <1>2, <2>1, <2>2 DEF OneTarget
<1>3. QED
  BY <1>1, <1>2 DEF RunOwnsBatch, OneTarget, Claimed

\* A fresh run claims for a new batch, and its job had no claims before.
LEMMA FreshTargets ==
  ASSUME OrderInv, RunOwnsBatch, OneTarget, NEW j \in Jobs, NEW maxBatch \in MaxBatchArgs,
         InitJob(j, maxBatch), FreshRun(j, maxBatch)
  PROVE  RunOwnsBatch' /\ OneTarget'
<1> DEFINE queue == SeededQueue(j)
           rows  == TakenRows(j, maxBatch)
           b     == Len(batches) + 1
<1>0. /\ IdsInv /\ TypeOK /\ bcq \in SUBSET Row /\ batches \in Seq(Run)
      /\ j \in Processes /\ Len(batches) \in Nat /\ Len(execs[j]) \in Nat
  BY ExecFacts DEF OrderInv, IdsInv, TypeOK, Processes
<1>1. /\ queue \in SUBSET Row /\ rows \in SUBSET queue
      /\ bcq' = Claims(queue, rows, b)
      /\ \A r \in rows : ParentOf[r.proc] = j
  BY <1>0, FreshEffect
<1>2. \A r \in queue \ bcq : ~Claimed(r)
  BY NewRowHas DEF SeededQueue
<1>3. batches' = Append(batches, [job |-> j, run |-> Len(execs[j]) + 1])
  BY DEF FreshRun
<1>4. /\ b \in DOMAIN batches'
      /\ batches'[b] = [job |-> j, run |-> Len(execs[j]) + 1]
      /\ \A c \in DOMAIN batches : c \in DOMAIN batches' /\ batches'[c] = batches[c]
  BY <1>0, <1>3
<1>5. /\ Len(execs'[j]) = Len(execs[j]) + 1
      /\ \A k \in Jobs \ {j} : Len(execs'[k]) = Len(execs[k])
  <2>1. execs' = Start(j, Len(execs[j]) + 1) /\ Len(execs[j]) + 1 \in Nat
    BY <1>0 DEF InitJob
  <2>2. QED
    BY <1>0, <2>1, RunningAfterStart DEF Processes
<1>6. b \in Nat
  BY <1>0
<1> HIDE DEF queue, rows, b
<1>7. \A x \in bcq' : Claimed(x) =>
        IF ParentOf[x.proc] = j THEN x.tgt = b
        ELSE x \in bcq /\ ParentOf[x.proc] \in Jobs
  <2> TAKE x \in bcq'
  <2> HAVE Claimed(x)
  <2>1. CASE x \in queue \ rows
    <3>1. x \in bcq /\ ParentOf[x.proc] # j
      BY <1>2, <2>1 DEF FreshRun, IsRerun, JobRows
    <3>2. QED
      BY <1>0, <3>1, CatalogueAssumption DEF Row
  <2>2. CASE x \notin queue \ rows
    <3>1. PICK y \in rows : SameRow(x, y) /\ x.tgt = b
      <4>1. \A z \in Claims(queue, rows, b) :
              z \in queue \ rows \/ \E y \in rows : SameRow(z, y) /\ z.tgt = b
        BY <1>1, <1>6, ClaimFacts
      <4>2. QED
        BY <1>1, <2>2, <4>1
    <3>2. QED
      BY <1>1, <3>1 DEF SameRow
  <2>3. QED
    BY <2>1, <2>2
<1>8. RunOwnsBatch'
  <2> SUFFICES ASSUME NEW x \in bcq', Claimed(x)
               PROVE  /\ x.tgt \in DOMAIN batches'
                      /\ batches'[x.tgt] = [job |-> ParentOf[x.proc],
                                            run |-> Len(execs'[ParentOf[x.proc]])]
    BY DEF RunOwnsBatch, Claimed
  <2>1. CASE ParentOf[x.proc] = j
    BY <1>4, <1>5, <1>7, <2>1
  <2>2. CASE ParentOf[x.proc] # j
    BY <1>4, <1>5, <1>7, <2>2 DEF RunOwnsBatch
  <2>3. QED
    BY <2>1, <2>2
<1>9. OneTarget'
  BY <1>7 DEF OneTarget, Claimed
<1>10. QED
  BY <1>8, <1>9

\* A rerun relinks the one batch its job has claims for.
LEMMA RerunTargets ==
  ASSUME OrderInv, RunOwnsBatch, OneTarget, NEW j \in Jobs, NEW maxBatch \in MaxBatchArgs,
         InitJob(j, maxBatch), Rerun(j)
  PROVE  RunOwnsBatch' /\ OneTarget'
<1>0. /\ TypeOK /\ bcq \in SUBSET Row /\ batches \in Seq(Run)
      /\ IdsKept(bcq, archive, lastId) /\ lastId \in [Subs -> Nat]
      /\ j \in Processes /\ Len(execs[j]) \in Nat
  BY ExecFacts DEF OrderInv, IdsInv, TypeOK, Processes
<1>1. \A x \in bcq' : \E r \in bcq : r.proc = x.proc /\ r.tgt = x.tgt
  <2>1. PICK rows \in SUBSET bcq : bcq' = Restated(bcq, rows, "accessed")
    BY RerunEffect
  <2>2. \A x \in bcq' : \E r \in bcq : Alike(x, r)
    BY <1>0, <2>1, RestateFacts DEF BatchState
  <2>3. QED
    BY <2>2 DEF Alike
<1>2. /\ Len(execs'[j]) = Len(execs[j]) + 1
      /\ \A k \in Jobs \ {j} : Len(execs'[k]) = Len(execs[k])
  <2>1. execs' = Start(j, Len(execs[j]) + 1) /\ Len(execs[j]) + 1 \in Nat
    BY <1>0 DEF InitJob
  <2>2. QED
    BY <1>0, <2>1, RunningAfterStart DEF Processes
<1> DEFINE kept == UNION {{r.tgt : r \in Oldest(RowsOf(s, bcq))} : s \in SubsOf(j)}
<1>3. /\ DOMAIN batches' = DOMAIN batches
      /\ \A b \in DOMAIN batches :
           batches'[b] = IF b \in kept THEN [job |-> j, run |-> Len(execs[j]) + 1]
                         ELSE batches[b]
  BY DEF Rerun, TakeOver
<1>4. ASSUME NEW s \in SubsOf(j), NEW r \in Oldest(RowsOf(s, bcq))
      PROVE  r \in bcq /\ Claimed(r) /\ ParentOf[r.proc] = j
  BY <1>4 DEF InitJob, AcceptsInitJob, CanClaim, Rerun, OldestClaimed, Oldest, RowsOf, SubsOf
<1>5. ASSUME NEW r \in bcq, Claimed(r), ParentOf[r.proc] = j
      PROVE  r.tgt \in kept
  <2> DEFINE own == RowsOf(r.proc, bcq)
  <2>1. r.proc \in SubsOf(j) /\ r \in own /\ own \in SUBSET Row /\ r.proc \in Subs
    BY <1>0, <1>5 DEF SubsOf, RowsOf, Row
  <2>2. IsFiniteSet(own)
    <3>1. /\ \A x \in own : x.proc = r.proc /\ x.id <= lastId[r.proc]
          /\ \A x, y \in own : SameRow(x, y) => x = y
          /\ lastId[r.proc] \in Nat
      BY <1>0, <2>1 DEF IdsKept, NoTwins, RowsOf
    <3> HIDE DEF own
    <3>2. QED
      BY <2>1, <3>1, RowsAreFinite
  <2>3. PICK x : x \in Oldest(own)
    <3> HIDE DEF own
    <3>1. own # {}
      BY <2>1
    <3>2. Oldest(own) # {}
      BY <2>1, <2>2, <3>1, SomeRowIsOldest
    <3>3. QED
      BY <3>2
  <2>4. x.tgt = r.tgt
    BY <1>4, <1>5, <2>1, <2>3 DEF OneTarget
  <2>5. QED
    BY <2>1, <2>3, <2>4
<1>6. ASSUME NEW r \in bcq, Claimed(r), ParentOf[r.proc] # j
      PROVE  r.tgt \notin kept
  <2>1. SUFFICES ASSUME NEW s \in SubsOf(j), NEW x \in Oldest(RowsOf(s, bcq)), x.tgt = r.tgt
                 PROVE  FALSE
    OBVIOUS
  <2>2. x \in bcq /\ Claimed(x) /\ ParentOf[x.proc] = j
    BY <1>4, <2>1
  <2>3. /\ batches[r.tgt] = [job |-> ParentOf[r.proc], run |-> Len(execs[ParentOf[r.proc]])]
        /\ batches[x.tgt] = [job |-> j, run |-> Len(execs[j])]
    BY <1>6, <2>2 DEF RunOwnsBatch
  <2>4. QED
    BY <1>6, <2>1, <2>3
<1> HIDE DEF kept
<1>7. ASSUME NEW r \in bcq, Claimed(r)
      PROVE  /\ r.tgt \in DOMAIN batches'
             /\ batches'[r.tgt] = [job |-> ParentOf[r.proc],
                                   run |-> Len(execs'[ParentOf[r.proc]])]
  <2>1. r.tgt \in DOMAIN batches /\ ParentOf[r.proc] \in Jobs
    BY <1>0, <1>7, CatalogueAssumption DEF RunOwnsBatch, Row
  <2>2. CASE ParentOf[r.proc] = j
    BY <1>2, <1>3, <1>5, <1>7, <2>1, <2>2
  <2>3. CASE ParentOf[r.proc] # j
    <3>1. batches'[r.tgt] = batches[r.tgt]
      BY <1>3, <1>6, <1>7, <2>1, <2>3
    <3>2. QED
      BY <1>2, <1>3, <1>7, <2>1, <2>3, <3>1 DEF RunOwnsBatch
  <2>4. QED
    BY <2>2, <2>3
<1>8. \A r, x : r.tgt = x.tgt => (Claimed(r) <=> Claimed(x))
  BY DEF Claimed
<1>9. RunOwnsBatch'
  <2> SUFFICES ASSUME NEW x \in bcq', Claimed(x)
               PROVE  /\ x.tgt \in DOMAIN batches'
                      /\ batches'[x.tgt] = [job |-> ParentOf[x.proc],
                                            run |-> Len(execs'[ParentOf[x.proc]])]
    BY DEF RunOwnsBatch, Claimed
  <2>1. PICK r \in bcq : r.proc = x.proc /\ r.tgt = x.tgt /\ Claimed(r)
    BY <1>1, <1>8
  <2>2. QED
    BY <1>7, <2>1
<1>10. OneTarget'
  <2> SUFFICES ASSUME NEW x \in bcq', NEW y \in bcq', Claimed(x), Claimed(y),
                      ParentOf[x.proc] = ParentOf[y.proc]
               PROVE  x.tgt = y.tgt
    BY DEF OneTarget, Claimed
  <2>1. PICK r \in bcq : r.proc = x.proc /\ r.tgt = x.tgt /\ Claimed(r)
    BY <1>1, <1>8
  <2>2. PICK q \in bcq : q.proc = y.proc /\ q.tgt = y.tgt /\ Claimed(q)
    BY <1>1, <1>8
  <2>3. QED
    BY <2>1, <2>2 DEF OneTarget
<1>11. QED
  BY <1>9, <1>10

LEMMA TargetsStep == OrderInv /\ RunOwnsBatch /\ OneTarget /\ TypeOK' /\ [Next]_vars =>
                       RunOwnsBatch' /\ OneTarget'
<1> SUFFICES ASSUME OrderInv, RunOwnsBatch, OneTarget, TypeOK', [Next]_vars
             PROVE  RunOwnsBatch' /\ OneTarget'
  OBVIOUS
<1>0. /\ IdsInv /\ TypeOK /\ bcq \in SUBSET Row /\ batches \in Seq(Run)
  BY DEF OrderInv, IdsInv, TypeOK
<1>1. CASE \E j \in Jobs, maxBatch \in MaxBatchArgs : InitJob(j, maxBatch)
  BY <1>1, FreshTargets, RerunTargets DEF InitJob
<1>2. ASSUME ~ \E j \in Jobs, maxBatch \in MaxBatchArgs : InitJob(j, maxBatch),
             batches' = batches \/ \E run : batches' = Append(batches, run),
             \A x \in bcq' : Claimed(x) =>
               \E r \in bcq : r.proc = x.proc /\ r.tgt = x.tgt
      PROVE  RunOwnsBatch' /\ OneTarget'
  <2>1. \A j \in Jobs : Len(execs'[j]) = Len(execs[j])
    BY <1>0, <1>2, RunCount
  <2>2. \A b \in DOMAIN batches : b \in DOMAIN batches' /\ batches'[b] = batches[b]
    BY <1>0, <1>2
  <2>3. QED
    BY <1>0, <1>2, <2>1, <2>2, TargetsStay
<1>3. ASSUME NEW s \in Subs, HaltStep(s) \/ TermStep(s)
      PROVE  /\ batches' = batches
             /\ \A x \in bcq' : \E r \in bcq : r.proc = x.proc /\ r.tgt = x.tgt
  <2>1. PICK rows \in SUBSET bcq :
          bcq' = Restated(bcq, rows, "processed") /\ batches' = batches
    BY <1>0, <1>3, StepEffect
  <2>2. \A x \in bcq' : \E r \in bcq : Alike(x, r)
    BY <1>0, <2>1, RestateFacts DEF BatchState
  <2>3. QED
    BY <2>1, <2>2 DEF Alike
<1>4. ASSUME NEW j \in Jobs, HaltJob(j) \/ BatchEnqueue(j)
      PROVE  /\ batches' = batches \/ batches' = Append(batches, NoRun)
             /\ \A x \in bcq' : Claimed(x) => \E r \in bcq : r.proc = x.proc /\ r.tgt = x.tgt
  <2>1. PICK src \in Nat : bcq' \subseteq bcq \union NewRows(Downstream(j), src)
    BY <1>0, <1>4, HaltEffect, FileEffect
  <2>2. \A x \in NewRows(Downstream(j), src) : ~Claimed(x)
    BY NewRowHas
  <2>3. batches' = batches \/ batches' = Append(batches, NoRun)
    BY <1>4 DEF HaltJob, BatchEnqueue
  <2>4. QED
    BY <2>1, <2>2, <2>3
<1>5. CASE UNCHANGED <<bcq, batches>>
  BY <1>1, <1>2, <1>5
<1>6. QED
  BY <1>1, <1>2, <1>3, <1>4, <1>5 DEF Next, vars, TermJob, InitStep

\* What is filed was claimed, and a source stays what it was.
LEMMA FiledStep == BatchInv /\ TypeOK' /\ [Next]_vars => ArchivedConsumed' /\ Provenance'
<1> SUFFICES ASSUME BatchInv, TypeOK', [Next]_vars
             PROVE  ArchivedConsumed' /\ Provenance'
  OBVIOUS
<1>0. /\ OrderInv /\ RunOwnsBatch /\ TypeOK /\ bcq \in SUBSET Row /\ archive \in SUBSET Row
      /\ MarkedAreClaimed /\ ArchivedConsumed /\ Provenance
  BY DEF BatchInv, OrderInv, IdsInv, TypeOK
<1>1. \A b \in DOMAIN batches :
        /\ b \in DOMAIN batches'
        /\ batches'[b] = batches[b] \/ batches'[b].job = batches[b].job
        /\ batches[b] = NoRun => batches'[b] = NoRun
  BY <1>0, BatchesKept
<1>2. Provenance'
  <2>1. SUFFICES ASSUME NEW x \in bcq' \union archive'
                 PROVE  Sourced(x, batches')
    BY DEF Provenance, Sourced
  <2>2. CASE \E y \in bcq \union archive : Descends(x, y)
    <3>1. PICK y \in bcq \union archive : y.proc = x.proc /\ y.src = x.src
      BY <2>2 DEF Descends, SameRow
    <3>2. QED
      BY <1>0, <1>1, <3>1 DEF Provenance, Sourced
  <2>3. CASE Fresh(x)
    BY <2>3 DEF Fresh
  <2>4. QED
    BY <1>0, <2>2, <2>3, Descent
<1>3. ASSUME NEW r \in bcq, r.state = "processed"
      PROVE  /\ r.tgt \in DOMAIN batches
             /\ batches[r.tgt].job = ParentOf[r.proc]
  <2>1. Claimed(r)
    BY <1>0, <1>3 DEF MarkedAreClaimed, Marked
  <2>2. /\ r.tgt \in DOMAIN batches
        /\ batches[r.tgt] = [job |-> ParentOf[r.proc], run |-> Len(execs[ParentOf[r.proc]])]
    BY <1>0, <2>1 DEF RunOwnsBatch
  <2>3. QED
    BY <2>2
<1>4. \/ archive' = archive
      \/ \E j \in Jobs : archive' = archive \union Consumed(j)
  BY DEF Next, vars, InitJob, HaltJob, TermJob, BatchEnqueue, InitStep, HaltStep, TermStep,
         EndStep
<1>5. \A r \in archive' : r \in archive \/ (r \in bcq /\ r.state = "processed")
  BY <1>4 DEF Consumed, JobRows
<1>6. ArchivedConsumed'
  <2>1. SUFFICES ASSUME NEW r \in archive'
                 PROVE  /\ r.state = "processed"
                        /\ r.tgt \in DOMAIN batches'
                        /\ batches'[r.tgt].job = ParentOf[r.proc]
    BY DEF ArchivedConsumed
  <2>2. /\ r.state = "processed" /\ r.tgt \in DOMAIN batches
        /\ batches[r.tgt].job = ParentOf[r.proc]
    BY <1>0, <1>3, <1>5 DEF ArchivedConsumed
  <2>3. QED
    BY <1>1, <2>2
<1>7. QED
  BY <1>2, <1>6

LEMMA BatchInvariant == Spec => []BatchInv
<1>1. Init => RunOwnsBatch /\ OneTarget /\ ArchivedConsumed /\ Provenance
  BY DEF Init, RunOwnsBatch, OneTarget, ArchivedConsumed, Provenance
<1>2. BatchInv /\ OrderInv' /\ TypeOK' /\ [Next]_vars => BatchInv'
  BY TargetsStep, FiledStep DEF BatchInv
<1>3. OrderInv => TypeOK
  BY DEF OrderInv, IdsInv
<1>4. QED
  BY <1>1, <1>2, <1>3, OrderInvariant, PTL DEF Spec, BatchInv

\* All claimed rows of a job aim at one batch, which the latest run of the job owns,
\* whatever runs failed in between.
THEOREM OneBatchPerRun == Spec => [](RunOwnsBatch /\ OneTarget)
<1>1. BatchInv => RunOwnsBatch /\ OneTarget
  BY DEF BatchInv
<1>2. QED
  BY <1>1, BatchInvariant, PTL

\* What haltJob files was consumed, and every row comes from the job that feeds its
\* step, from a file, or from nowhere when nothing feeds the step.
THEOREM FiledAndFed == Spec => [](ArchivedConsumed /\ Provenance)
<1>1. BatchInv => ArchivedConsumed /\ Provenance
  BY DEF BatchInv
<1>2. QED
  BY <1>1, BatchInvariant, PTL

\* A rerun delivers to the batch the failed run had opened.
THEOREM TargetNeverChanges == Spec => TargetKept
<1>1. BatchInv /\ TypeOK' /\ [Next]_vars =>
        [\A r \in bcq, x \in bcq' \union archive' :
           SameRow(r, x) /\ Claimed(r) => x.tgt = r.tgt]_vars
  BY TargetStep DEF BatchInv
<1>2. QED
  BY <1>1, BatchInvariant, TypeCorrect, PTL DEF Spec, TargetKept

-----------------------------------------------------------------------------
(***************************************************************************)
(* Rows are filed by a success only.                                       *)
(***************************************************************************)

\* A row that is marked processed is one of a step that has run.
ProcessedHaveRun == \A r \in bcq : r.state = "processed" => Len(execs[r.proc]) > 0
FiledInv == TypeOK /\ OneInstance /\ ProcessedHaveRun

LEMMA HistoryGrows ==
  ASSUME TypeOK, [Next]_vars
  PROVE  \A p \in Processes : Len(execs[p]) > 0 => Len(execs'[p]) > 0
<1> DEFINE Grown == \A p \in Processes : Len(execs[p]) > 0 => Len(execs'[p]) > 0
<1>0. \A p \in Processes : Len(execs[p]) \in Nat
  BY ExecFacts
<1>1. ASSUME NEW q \in Processes,
             \/ \E n \in Nat : execs' = Start(q, n)
             \/ \E i \in Running(q), st \in {"success", "failed"} : execs' = Finish(q, i, st)
      PROVE  Grown
  <2>1. CASE \E n \in Nat : execs' = Start(q, n)
    <3>1. Len(execs'[q]) = Len(execs[q]) + 1 /\ \A p \in Processes \ {q} : execs'[p] = execs[p]
      BY <2>1, RunningAfterStart
    <3>2. QED
      BY <1>0, <3>1
  <2>2. CASE \E i \in Running(q), st \in {"success", "failed"} : execs' = Finish(q, i, st)
    <3>1. Len(execs'[q]) = Len(execs[q]) /\ \A p \in Processes \ {q} : execs'[p] = execs[p]
      BY <2>2, RunningAfterFinish
    <3>2. QED
      BY <1>0, <3>1
  <2>3. QED
    BY <1>1, <2>1, <2>2
<1>2. ASSUME NEW j \in Jobs, NEW maxBatch \in MaxBatchArgs, InitJob(j, maxBatch)
      PROVE  Grown
  <2>1. j \in Processes /\ Len(execs[j]) + 1 \in Nat /\ execs' = Start(j, Len(execs[j]) + 1)
    BY <1>0, <1>2 DEF InitJob, Processes
  <2>2. QED
    BY <1>1, <2>1
<1>3. ASSUME NEW j \in Jobs, HaltJob(j) \/ TermJob(j)
      PROVE  Grown
  <2>1. PICK i \in Running(j), st \in {"success", "failed"} : execs' = Finish(j, i, st)
    BY <1>3 DEF HaltJob, TermJob
  <2>2. QED
    BY <1>1, <2>1 DEF Processes
<1>4. ASSUME NEW s \in Subs, InitStep(s)
      PROVE  Grown
  <2>1. s \in Processes /\ Len(execs[ParentOf[s]]) \in Nat
    BY <1>0, ParentFacts
  <2>2. QED
    BY <1>1, <1>4, <2>1 DEF InitStep
<1>5. ASSUME NEW s \in Subs, HaltStep(s) \/ TermStep(s)
      PROVE  Grown
  BY <1>1, <1>5, StepEffect, ParentFacts
<1>6. CASE UNCHANGED execs
  BY <1>6
<1>7. QED
  BY <1>2, <1>3, <1>4, <1>5, <1>6 DEF Next, vars, BatchEnqueue

\* Only the end of a step marks rows.
LEMMA MarkedBySteps ==
  ASSUME IdsInv, [Next]_vars, NEW x \in bcq', x.state = "processed"
  PROVE  \/ \E r \in bcq : r.proc = x.proc /\ r.state = "processed"
         \/ \E i \in Running(x.proc) : x.proc \in Subs
<1> DEFINE Before == \E r \in bcq : r.proc = x.proc /\ r.state = "processed"
<1>0. TypeOK /\ bcq \in SUBSET Row
  BY DEF IdsInv, TypeOK
<1>1. \A S, src : \A r \in NewRows(S, src) : r.state # "processed"
  BY NewRowHas
<1>2. ASSUME NEW j \in Jobs, NEW maxBatch \in MaxBatchArgs, FreshRun(j, maxBatch)
      PROVE  Before
  <2>1. /\ bcq' = Claims(SeededQueue(j), TakenRows(j, maxBatch), Len(batches) + 1)
        /\ TakenRows(j, maxBatch) \subseteq SeededQueue(j) /\ SeededQueue(j) \in SUBSET Row
    BY <1>2, FreshEffect
  <2>2. \A b : \A r \in Row :
          /\ Claim(r, b).proc = r.proc
          /\ Claim(r, b).state = r.state \/ Claim(r, b).state = "accessed"
    BY DEF Claim, Row
  <2>3. PICK r \in SeededQueue(j) : r.proc = x.proc /\ r.state = "processed"
    BY <2>1, <2>2 DEF Claims
  <2>4. QED
    BY <1>1, <2>3 DEF SeededQueue
<1>3. ASSUME NEW j \in Jobs, Rerun(j)
      PROVE  Before
  <2>1. PICK rows \in SUBSET bcq : bcq' = Restated(bcq, rows, "accessed")
    BY <1>3, RerunEffect
  <2>2. PICK r \in bcq : Alike(x, r) /\ (x = r \/ x.state = "accessed")
    BY <1>0, <2>1, RestateFacts DEF BatchState
  <2>3. QED
    BY <2>2 DEF Alike
<1>4. ASSUME NEW s \in Subs, HaltStep(s) \/ TermStep(s)
      PROVE  Before \/ \E i \in Running(x.proc) : x.proc \in Subs
  <2>1. PICK rows \in SUBSET bcq, i \in Running(s) :
          bcq' = Restated(bcq, rows, "processed") /\ \A r \in rows : r.proc = s
    BY <1>0, <1>4, StepEffect
  <2>2. PICK r \in bcq : Alike(x, r) /\ (x = r \/ r \in rows)
    BY <1>0, <2>1, RestateFacts DEF BatchState
  <2>3. QED
    BY <2>1, <2>2 DEF Alike
<1>5. ASSUME NEW j \in Jobs, HaltJob(j) \/ BatchEnqueue(j)
      PROVE  Before
  <2>1. PICK src \in Nat : bcq' \subseteq bcq \union NewRows(Downstream(j), src)
    BY <1>0, <1>5, HaltEffect, FileEffect
  <2>2. QED
    BY <1>1, <2>1
<1>6. CASE UNCHANGED bcq
  BY <1>6
<1>7. QED
  BY <1>2, <1>3, <1>4, <1>5, <1>6 DEF Next, vars, InitJob, TermJob, InitStep

LEMMA ProcessedStep == IdsInv /\ ProcessedHaveRun /\ TypeOK' /\ [Next]_vars => ProcessedHaveRun'
<1> SUFFICES ASSUME IdsInv, ProcessedHaveRun, TypeOK', [Next]_vars,
                    NEW x \in bcq', x.state = "processed"
             PROVE  Len(execs'[x.proc]) > 0
  BY DEF ProcessedHaveRun
<1>0. TypeOK /\ x.proc \in Processes
  BY DEF IdsInv, TypeOK, Row, Processes
<1>1. Len(execs[x.proc]) > 0
  <2>1. CASE \E r \in bcq : r.proc = x.proc /\ r.state = "processed"
    BY <2>1 DEF ProcessedHaveRun
  <2>2. CASE \E i \in Running(x.proc) : x.proc \in Subs
    <3>1. PICK i \in 1 .. Len(execs[x.proc]) : TRUE
      BY <1>0, <2>2, ExecFacts
    <3>2. Len(execs[x.proc]) \in Nat
      BY <1>0, ExecFacts
    <3>3. QED
      BY <3>1, <3>2
  <2>3. QED
    BY <2>1, <2>2, MarkedBySteps
<1>2. QED
  BY <1>0, <1>1, HistoryGrows

\* What haltJob takes out of the queue, it takes out at the success of the job, after
\* the success of the step.
LEMMA FiledOnSuccessStep ==
  ASSUME FiledInv, IdsInv, [Next]_vars, NEW r \in bcq, \A x \in bcq' : ~SameRow(r, x)
  PROVE  /\ LastState(r.proc) = "success"
         /\ LastState(ParentOf[r.proc]) = "running"
         /\ LastState(ParentOf[r.proc])' = "success"
         /\ \E x \in archive' : SameRow(r, x)
<1>0. TypeOK /\ bcq \in SUBSET Row /\ r.proc \in Subs
  BY DEF FiledInv, TypeOK, Row
<1>1. \E j \in Jobs : HaltJob(j) /\ r \in Consumed(j)
  <2>1. ASSUME NEW rows \in SUBSET bcq, NEW state \in BatchState,
               bcq' = Restated(bcq, rows, state)
        PROVE  FALSE
    <3>1. PICK x \in bcq' : Alike(x, r)
      BY <1>0, <2>1, RestateFacts
    <3>2. QED
      BY <3>1 DEF Alike, SameRow
  <2>2. ASSUME NEW j \in Jobs, NEW maxBatch \in MaxBatchArgs, FreshRun(j, maxBatch)
        PROVE  FALSE
    <3> DEFINE b == Len(batches) + 1
               queue == SeededQueue(j)
               rows == TakenRows(j, maxBatch)
    <3>1. /\ queue \in SUBSET Row /\ rows \in SUBSET queue /\ r \in queue
          /\ bcq' = Claims(queue, rows, b) /\ b \in Nat
      <4>1. /\ queue \in SUBSET Row /\ rows \subseteq {x \in queue : ParentOf[x.proc] = j}
            /\ bcq' = Claims(queue, rows, b)
        BY <2>2, FreshEffect
      <4>2. b \in Nat
        BY <1>0 DEF TypeOK
      <4>3. r \in queue
        BY DEF SeededQueue
      <4> HIDE DEF b, queue, rows
      <4>4. QED
        BY <4>1, <4>2, <4>3
    <3> HIDE DEF b, queue, rows
    <3>2. \A x \in rows : \E y \in Claims(queue, rows, b) :
            SameRow(y, x) /\ y.src = x.src /\ y.tgt = b /\ Claimed(y)
      BY <3>1, ClaimFacts
    <3>3. \A x \in queue \ rows : x \in Claims(queue, rows, b)
      BY <3>1, ClaimFacts
    <3>4. QED
      BY <3>1, <3>2, <3>3 DEF SameRow
  <2>3. ASSUME NEW j \in Jobs, Rerun(j)
        PROVE  FALSE
    BY <2>1, <2>3, RerunEffect DEF BatchState
  <2>4. ASSUME NEW s \in Subs, HaltStep(s) \/ TermStep(s)
        PROVE  FALSE
    BY <1>0, <2>1, <2>4, StepEffect DEF BatchState
  <2>5. ASSUME NEW j \in Jobs, HaltJob(j)
        PROVE  r \in Consumed(j)
    BY <2>5 DEF HaltJob, Unconsumed, SameRow
  <2>6. r \notin bcq'
    BY DEF SameRow
  <2>7. QED
    BY <2>2, <2>3, <2>4, <2>5, <2>6
       DEF Next, vars, InitJob, TermJob, InitStep, BatchEnqueue
<1>2. PICK j \in Jobs : HaltJob(j) /\ r \in Consumed(j)
  BY <1>1
<1>3. ParentOf[r.proc] = j /\ r.state = "processed" /\ r.proc \in SubsOf(j)
  BY <1>0, <1>2 DEF Consumed, JobRows, SubsOf
<1>4. LastState(r.proc) = "success"
  <2> DEFINE n == Len(execs[r.proc])
  <2>1. n \in Nat /\ n > 0 /\ execs[r.proc] # <<>> /\ n \in DOMAIN execs[r.proc]
        /\ execs[r.proc][n] \in Exec
    <3>1. r.proc \in Processes
      BY <1>0 DEF Processes
    <3>2. /\ n \in Nat /\ DOMAIN execs[r.proc] = 1 .. n
          /\ \A i \in DOMAIN execs[r.proc] : execs[r.proc][i] \in Exec
      BY <1>0, <3>1, ExecFacts
    <3>3. n > 0
      BY <1>3 DEF FiledInv, ProcessedHaveRun
    <3>4. QED
      BY <3>2, <3>3
  <2>2. execs[r.proc][n].state # "running" /\ LastState(r.proc) # "failed"
    BY <1>2, <1>3, <2>1 DEF HaltJob, AcceptsHaltJob, AcceptsHalt, NoSubRunning, Running
  <2>3. QED
    BY <2>1, <2>2 DEF LastState, Exec, ExecState
<1>5. PICK i \in Running(j) : execs' = Finish(j, i, "success")
  BY <1>2 DEF HaltJob
<1>6. /\ j \in Processes /\ i = Len(execs[j]) /\ i \in DOMAIN execs[j]
      /\ execs[j] # <<>> /\ execs[j][i].state = "running" /\ execs[j][i] \in Exec
  <2>1. j \in Processes
    BY DEF Processes
  <2>2. i = Len(execs[j]) /\ i \in DOMAIN execs[j] /\ execs[j][i].state = "running"
    BY <1>5, <2>1 DEF FiledInv, OneInstance, Running
  <2>3. DOMAIN execs[j] = 1 .. Len(execs[j]) /\ execs[j][i] \in Exec
    BY <1>0, <2>1, <2>2, ExecFacts
  <2>4. QED
    BY <2>1, <2>2, <2>3
<1>7. LastState(j) = "running"
  BY <1>6 DEF LastState
<1>8. LastState(j)' = "success"
  <2>1. /\ Len(Finish(j, i, "success")[j]) = Len(execs[j])
        /\ Finish(j, i, "success")[j][i] = [execs[j][i] EXCEPT !.state = "success"]
    BY <1>0, <1>6, FinishFacts DEF TypeOK, ExecState
  <2>2. Len(execs'[j]) = i /\ execs'[j][i].state = "success"
    BY <1>5, <1>6, <2>1 DEF Exec
  <2>3. execs'[j] # <<>>
    BY <1>6, <2>2
  <2>4. QED
    BY <2>2, <2>3 DEF LastState
<1>9. \E x \in archive' : SameRow(r, x)
  BY <1>2 DEF HaltJob, SameRow
<1>10. QED
  BY <1>3, <1>4, <1>7, <1>8, <1>9

\* A row leaves the queue only at the success of its job, and of its step, although
\* a failed step marks its rows just as a successful one does.
THEOREM FiledOnSuccess == Spec => ArchivedOnSuccess
<1>1. Init => ProcessedHaveRun
  BY DEF Init, ProcessedHaveRun
<1>2. Spec => []FiledInv
  BY <1>1, ProcessedStep, IdsInvariant, TypeCorrect, RunsAreNested, PTL DEF Spec, FiledInv
<1>3. FiledInv /\ IdsInv /\ [Next]_vars =>
        [\A r \in bcq : (\A x \in bcq' : ~SameRow(r, x)) =>
           /\ LastState(r.proc) = "success"
           /\ LastState(ParentOf[r.proc]) = "running"
           /\ LastState(ParentOf[r.proc])' = "success"
           /\ \E x \in archive' : SameRow(r, x)]_vars
  BY FiledOnSuccessStep
<1>4. QED
  BY <1>2, <1>3, IdsInvariant, PTL DEF Spec, ArchivedOnSuccess

=============================================================================
