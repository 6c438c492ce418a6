----------------------------- MODULE JobControl -----------------------------
(***************************************************************************)
(* The job/step/batch lifecycle of the metadata framework: the three       *)
(* INSTANCE_EXEC, BATCH and BATCH_CONSUMP_QUEUE tables (with the archive   *)
(* of the last) and the DAO calls that move them: JobDAO.initJob, haltJob, *)
(* termJob, StepDAO.initStep, haltStep, termStep and                       *)
(* BatchEnqueuerDAO.batchEnqueue.  A call is one database transaction and  *)
(* is one step here; module ExecRaces splits the calls to study what two   *)
(* transactions may do to each other.  A call that throws rolls back and   *)
(* is no step.                                                             *)
(*                                                                         *)
(* The catalogue (PROCESS table) is constant.  A job is a parent process,  *)
(* a sub is a step of one job; both are positive process ids, as in the    *)
(* table, and 0 is "no process".  Every job has a sub and no sub has a     *)
(* batch-cut pattern: a job limits its input by maxBatch alone.            *)
(*                                                                         *)
(* A definition marked "mutant" is a faulty variant of the one below it;   *)
(* the specification uses none of them.  Each shows that some property     *)
(* would notice the fault.                                                 *)
(***************************************************************************)
EXTENDS Integers, Sequences, FiniteSets

CONSTANTS
  Jobs,             \* process ids of the parent processes
  Subs,             \* process ids of their steps
  ParentOf,         \* PARENT_PROCESS_ID of each sub
  EnqueuingProcess, \* ENQUEUING_PROCESS_ID of each sub: a job, or 0
  NextProcesses,    \* NEXT_PROCESS_ID of each sub: the set in its comma list
  CanRecover,       \* the subs whose CAN_RECOVER is true
  MaxBatchArgs,     \* the maxBatch arguments initJob is called with
  MaxRuns,          \* bound: executions of each process
  MaxFiles          \* bound: calls of batchEnqueue

NoProcess == 0
NoBatch   == -1      \* SQL NULL in TARGET_BATCH_ID
InitialBatch == 0    \* the BATCH row 0 the database is set up with
Processes == Jobs \union Subs

ASSUME CatalogueAssumption ==
  /\ Jobs \subseteq Nat \ {0} /\ Subs \subseteq Nat \ {0}
  /\ Jobs \intersect Subs = {}
  /\ IsFiniteSet(Jobs) /\ IsFiniteSet(Subs)
  /\ ParentOf \in [Subs -> Jobs]
  /\ EnqueuingProcess \in [Subs -> Jobs \union {NoProcess}]
  /\ NextProcesses \in [Subs -> SUBSET Processes]
  /\ CanRecover \subseteq Subs
  /\ MaxBatchArgs \subseteq Nat \ {0}
  /\ MaxRuns \in [Processes -> Nat]
  /\ MaxFiles \in Nat

VARIABLES
  execs,     \* INSTANCE_EXEC: for each process its executions, oldest first
  batches,   \* BATCH: the run that is the SOURCE_INSTANCE_EXEC_ID of each
  bcq,       \* BATCH_CONSUMP_QUEUE: a set of rows
  archive,   \* ARCHIVE_CONSUMP_QUEUE: a set of rows
  lastId,    \* for each sub, the QUEUE_ID given to its newest row
  recoverAt  \* for each job, the lastRecoverableSpId its last initJob returned

vars == <<execs, batches, bcq, archive, lastId, recoverAt>>

(***************************************************************************)
(* Types.  A sub's execution remembers in "during" how many runs of its    *)
(* job had begun when it started: what a comparison of START_TS tells.     *)
(* Rows of one sub are ordered by id, as the QUEUE_ID orders them; a query *)
(* on one process returns them in that order.  A row keeps its id in the   *)
(* archive, where the table would give it a new one.                       *)
(***************************************************************************)
ExecState == {"running", "success", "failed"}
Exec == [state : ExecState, during : Nat]
NoRun == [job |-> NoProcess, run |-> 0]
Run == [job : Jobs, run : Nat \ {0}] \union {NoRun}
BatchState == {"new", "processed", "accessed"}
Row == [proc : Subs, id : Nat \ {0}, src : Nat, tgt : Nat \union {NoBatch},
        state : BatchState]

TypeOK ==
  /\ execs \in [Processes -> Seq(Exec)]
  /\ batches \in Seq(Run)
  /\ bcq \in SUBSET Row
  /\ archive \in SUBSET Row
  /\ lastId \in [Subs -> Nat]
  /\ recoverAt \in [Jobs -> Processes \union {NoProcess}]

-----------------------------------------------------------------------------
(***************************************************************************)
(* Queries.                                                                *)
(***************************************************************************)
SubsOf(j) == {s \in Subs : ParentOf[s] = j}
FirstSub(j) == CHOOSE s \in SubsOf(j) : \A t \in SubsOf(j) : s <= t
Downstream(j) == {s \in Subs : EnqueuingProcess[s] = j}

Running(p) == {i \in DOMAIN execs[p] : execs[p][i].state = "running"}
LastState(p) == IF execs[p] = <<>> THEN "none" ELSE execs[p][Len(execs[p])].state
NoSubRunning_FirstOnly(j) ==   \* mutant: the accumulated query of initJob
  Running(FirstSub(j)) = {}
NoSubRunning(j) == \A s \in SubsOf(j) : Running(s) = {}

Claimed(r) == r.tgt # NoBatch
RowsOf(s, queue) == {r \in queue : r.proc = s}
JobRows(j, queue) == {r \in queue : ParentOf[r.proc] = j}
Oldest(rows) == {r \in rows : \A x \in rows : r.id <= x.id}

\* A row of process s with the id the table gives next.
NewRow_SameId(s, src) ==   \* mutant: the id is taken before it is counted
  [proc |-> s, id |-> lastId[s], src |-> src, tgt |-> NoBatch, state |-> "new"]
NewRow(s, src) ==
  [proc |-> s, id |-> lastId[s] + 1, src |-> src, tgt |-> NoBatch, state |-> "new"]
NewRows(S, src) == {NewRow(s, src) : s \in S}
CountIds(S) == [s \in Subs |-> IF s \in S THEN lastId[s] + 1 ELSE lastId[s]]

\* The INSTANCE_EXEC table after p starts an execution, or after one ends.
Start(p, during) ==
  [execs EXCEPT ![p] = Append(@, [state |-> "running", during |-> during])]
Finish(p, i, state) == [execs EXCEPT ![p][i].state = state]

-----------------------------------------------------------------------------
(***************************************************************************)
(* initJob.  The checks before anything is written.  The query for running *)
(* subs adds one more "process = ?" for every sub it looks at, so after    *)
(* the first sub no row can match: only the first is really checked.       *)
(***************************************************************************)
NotRunning_Unchecked(j) == Running(FirstSub(j)) = {}   \* mutant: job not looked at
NotRunning(j) == Running(j) = {} /\ Running(FirstSub(j)) = {}

\* As many steps have rows as there are steps that consume another job's output.
HasBatches(j) ==
  LET queued    == {s \in SubsOf(j) : RowsOf(s, bcq) # {}}
      consuming == {s \in SubsOf(j) : EnqueuingProcess[s] # NoProcess}
  IN  Cardinality(queued) >= Cardinality(consuming)

\* The step a run after a failure is told to resume from.  The query for
\* successful steps accumulates its restrictions in the same way, and finds
\* something only when the job has a single sub.
LastRecoverable(j) ==
  LET s == FirstSub(j)
      found == /\ LastState(j) = "failed"
               /\ SubsOf(j) = {s}
               /\ s \in CanRecover
               /\ \E i \in DOMAIN execs[s] : execs[s][i].state = "success"
  IN  IF ~found THEN NoProcess
      ELSE IF \E p \in Processes : NextProcesses[s] = {p}
           THEN CHOOSE p \in Processes : NextProcesses[s] = {p}
           ELSE s

\* The rows a job that nothing feeds puts into its own empty queue.
Seeds(j) ==
  IF \A s \in SubsOf(j) : EnqueuingProcess[s] = NoProcess /\ RowsOf(s, bcq) = {}
  THEN SubsOf(j) ELSE {}
SeededQueue(j) == bcq \union NewRows(Seeds(j), InitialBatch)

IsRerun_FirstOnly(j) ==   \* mutant: claimed rows of other subs overlooked
  \E r \in RowsOf(FirstSub(j), bcq) : Claimed(r)
IsRerun_Unprocessed(j) ==   \* mutant: processed rows taken for finished ones
  \E r \in JobRows(j, bcq) : Claimed(r) /\ r.state # "processed"
IsRerun(j) == \E r \in JobRows(j, bcq) : Claimed(r)

\* Nothing is claimed: a new batch becomes the target of the first maxBatch
\* rows of every sub that has rows.  A sub with fewer rows makes the call
\* fail with an index out of bounds.
Taken_Newest(rows, maxBatch) ==   \* mutant: order descending
  {r \in rows : Cardinality({x \in rows : x.id > r.id}) < maxBatch}
Taken(rows, maxBatch) ==
  {r \in rows : Cardinality({x \in rows : x.id < r.id}) < maxBatch}
EnoughRows(j, maxBatch) ==
  \A s \in SubsOf(j) :
    LET rows == RowsOf(s, SeededQueue(j))
    IN  rows = {} \/ Cardinality(rows) >= maxBatch
Claim(r, batch) ==
  [r EXCEPT !.tgt = batch,
            !.state = IF EnqueuingProcess[r.proc] = NoProcess THEN @ ELSE "accessed"]
ClaimRows(j, maxBatch, batch) ==
  LET queue == SeededQueue(j)
      taken == UNION {Taken(RowsOf(s, queue), maxBatch) : s \in SubsOf(j)}
  IN  (queue \ taken) \union {Claim(r, batch) : r \in taken}

FreshRun(j, maxBatch) ==
  /\ ~IsRerun(j)
  /\ batches' = Append(batches, [job |-> j, run |-> Len(execs[j]) + 1])
  /\ bcq' = ClaimRows(j, maxBatch, Len(batches) + 1)
  /\ lastId' = CountIds(Seeds(j))

\* Some rows are still claimed by a failed run: the new run takes their
\* batches over.  A sub whose oldest row has no target makes the call fail.
\* The update that should set the rows of every sub to "accessed" accumulates
\* its restrictions too and reaches one row of the first sub.
OldestClaimed(j) == \A s \in SubsOf(j) : \A r \in Oldest(RowsOf(s, bcq)) : Claimed(r)
ReopenRows(j) ==
  LET reset == Oldest({r \in RowsOf(FirstSub(j), bcq) :
                         Claimed(r) /\ r.state \in {"new", "processed"}})
  IN  (bcq \ reset) \union {[r EXCEPT !.state = "accessed"] : r \in reset}
TakeOver_Forgotten(j) == batches   \* mutant: the batch stays with the failed run
TakeOver(j) ==
  LET kept == UNION {{r.tgt : r \in Oldest(RowsOf(s, bcq))} : s \in SubsOf(j)}
  IN  [b \in DOMAIN batches |->
        IF b \in kept THEN [job |-> j, run |-> Len(execs[j]) + 1] ELSE batches[b]]

Rerun(j) ==
  /\ IsRerun(j)
  /\ batches' = TakeOver(j)
  /\ bcq' = ReopenRows(j)
  /\ UNCHANGED lastId

\* What initJob asks for before it writes, or would fail over while it does.
CanClaim(j, maxBatch) == IF IsRerun(j) THEN OldestClaimed(j) ELSE EnoughRows(j, maxBatch)
AcceptsInitJob(j, maxBatch) ==
  /\ Len(execs[j]) < MaxRuns[j]
  /\ NotRunning(j) /\ HasBatches(j)
  /\ CanClaim(j, maxBatch)
InitJob(j, maxBatch) ==
  /\ AcceptsInitJob(j, maxBatch)
  /\ FreshRun(j, maxBatch) \/ Rerun(j)
  /\ execs' = Start(j, Len(execs[j]) + 1)
  /\ recoverAt' = [recoverAt EXCEPT ![j] = LastRecoverable(j)]
  /\ UNCHANGED archive

-----------------------------------------------------------------------------
(***************************************************************************)
(* Steps.                                                                  *)
(***************************************************************************)
AcceptsInitStep(s) ==
  /\ Len(execs[s]) < MaxRuns[s]
  /\ Running(ParentOf[s]) # {}
  /\ Running(s) = {}
InitStep(s) ==
  /\ AcceptsInitStep(s)
  /\ execs' = Start(s, Len(execs[ParentOf[s]]))
  /\ UNCHANGED <<batches, bcq, archive, lastId, recoverAt>>

\* Both ends of a step set its rows to "processed", a failure included; a
\* success of a step that nothing enqueues to does not ask for a target.
MarkProcessed(rows) ==
  bcq' = (bcq \ rows) \union {[r EXCEPT !.state = "processed"] : r \in rows}

AcceptsEndStep(s) == Running(ParentOf[s]) # {} /\ Running(s) # {}
EndStep(s, state, rows) ==
  /\ AcceptsEndStep(s)
  /\ \E i \in Running(s) :
       /\ \A k \in Running(s) : i <= k
       /\ execs' = Finish(s, i, state)
  /\ MarkProcessed(rows)
  /\ UNCHANGED <<batches, archive, lastId, recoverAt>>

ClaimedRowsOf_All(s) == RowsOf(s, bcq)   \* mutant: isNotNull dropped
ClaimedRowsOf(s) == {r \in RowsOf(s, bcq) : Claimed(r)}
HaltStep_Unmarked(s) == EndStep(s, "success", {})   \* mutant: rows not updated
HaltStep(s) ==
  EndStep(s, "success",
          IF EnqueuingProcess[s] = NoProcess THEN RowsOf(s, bcq) ELSE ClaimedRowsOf(s))
TermStep(s) == EndStep(s, "failed", ClaimedRowsOf(s))

-----------------------------------------------------------------------------
(***************************************************************************)
(* Ends of a job.                                                          *)
(***************************************************************************)
AcceptsHalt_FailedSteps(j) ==   \* mutant: failed steps not looked for
  Cardinality(Running(j)) = 1 /\ NoSubRunning(j)
AcceptsHalt(j) ==
  /\ Cardinality(Running(j)) = 1
  /\ NoSubRunning(j)
  /\ \A s \in SubsOf(j) : LastState(s) # "failed"

\* The batch handed downstream is the target of one row of the job, read
\* without an order: the oldest row of one of its subs.
OutputBatches_Source(j) ==   \* mutant: source and target batch swapped
  {r.src : r \in UNION {Oldest(RowsOf(s, bcq)) : s \in SubsOf(j)}}
OutputBatches(j) ==
  LET oldest == UNION {Oldest(RowsOf(s, bcq)) : s \in SubsOf(j)}
  IN  IF oldest = {} THEN {NoBatch} ELSE {r.tgt : r \in oldest}

Consumed_FirstOnly(j) ==   \* mutant: rows of the other steps are not moved
  {r \in RowsOf(FirstSub(j), bcq) : r.state = "processed"}
Consumed(j) == {r \in JobRows(j, bcq) : r.state = "processed"}
Unconsumed_Dropped(j) == bcq \ JobRows(j, bcq)   \* mutant: every row deleted
Unconsumed(j) == bcq \ Consumed(j)

\* SOURCE_BATCH_ID is NOT NULL.
HandedOn(j) == IF Downstream(j) = {} THEN OutputBatches(j) ELSE OutputBatches(j) \ {NoBatch}
AcceptsHaltJob(j) == AcceptsHalt(j) /\ HandedOn(j) # {}
HaltJob(j) ==
  /\ AcceptsHaltJob(j)
  /\ \E i \in Running(j) : execs' = Finish(j, i, "success")
  /\ \E output \in HandedOn(j) : bcq' = Unconsumed(j) \union NewRows(Downstream(j), output)
  /\ archive' = archive \union Consumed(j)
  /\ lastId' = CountIds(Downstream(j))
  /\ UNCHANGED <<batches, recoverAt>>

AcceptsTermJob(j) == LastState(j) = "running" /\ NoSubRunning(j)
TermJob(j) ==
  /\ AcceptsTermJob(j)
  /\ \E i \in Running(j) :
       /\ \A k \in Running(j) : i <= k
       /\ execs' = Finish(j, i, "failed")
  /\ UNCHANGED <<batches, bcq, archive, lastId, recoverAt>>

\* A file arrives for the steps j feeds: in a batch of its own, or, when the
\* caller names one, in a batch that a file opened before.  The call takes any
\* batch; a caller that names the batch of a run, and so hands that run's output
\* out a second time by its own choice, is left out.  So is a file for a job that
\* feeds nobody: it only adds a batch no row will ever name.
FileBatches == {b \in DOMAIN batches : batches[b] = NoRun}
BatchEnqueue(j) ==
  /\ Downstream(j) # {}
  /\ \E s \in Downstream(j) :
       Cardinality({r \in bcq \union archive : r.proc = s /\ r.src \in FileBatches}) < MaxFiles
  /\ \/ /\ batches' = Append(batches, NoRun)
        /\ bcq' = bcq \union NewRows(Downstream(j), Len(batches) + 1)
     \/ /\ UNCHANGED batches
        /\ \E b \in FileBatches : bcq' = bcq \union NewRows(Downstream(j), b)
  /\ lastId' = CountIds(Downstream(j))
  /\ UNCHANGED <<execs, archive, recoverAt>>

-----------------------------------------------------------------------------
Init ==
  /\ execs = [p \in Processes |-> <<>>]
  /\ batches = <<>>
  /\ bcq = {}
  /\ archive = {}
  /\ lastId = [s \in Subs |-> 0]
  /\ recoverAt = [j \in Jobs |-> NoProcess]

Next ==
  \/ \E j \in Jobs, maxBatch \in MaxBatchArgs : InitJob(j, maxBatch)
  \/ \E j \in Jobs : HaltJob(j) \/ TermJob(j) \/ BatchEnqueue(j)
  \/ \E s \in Subs : InitStep(s) \/ HaltStep(s) \/ TermStep(s)

Spec == Init /\ [][Next]_vars

-----------------------------------------------------------------------------
(***************************************************************************)
(* What the calls guarantee, in whatever order they are made.              *)
(***************************************************************************)

\* initJob and initStep refuse a process that is running already: with calls
\* that do not overlap only the latest execution of a process can be running,
\* so there are never two.
OneInstance == \A p \in Processes : \A i \in Running(p) : i = Len(execs[p])

\* A running step belongs to the running run of its job: no job ends under a
\* running step (haltJob, termJob), so none survives into a later run, although
\* initJob looks for leftovers in the first sub only.
StepsUnderJob ==
  \A s \in Subs : \A i \in Running(s) :
    /\ Running(ParentOf[s]) # {}
    /\ execs[s][i].during = Len(execs[ParentOf[s]])

\* All claimed rows of a job aim at one batch, the output of the job's latest
\* run: a run after a failure takes that batch over (BATCH is relinked), and no
\* run opens a second batch while rows of the first are left.
RunOwnsBatch ==
  \A r \in bcq : Claimed(r) =>
    /\ r.tgt \in DOMAIN batches
    /\ batches[r.tgt] = [job |-> ParentOf[r.proc], run |-> Len(execs[ParentOf[r.proc]])]
OneTarget ==
  \A r, x \in bcq : Claimed(r) /\ Claimed(x) /\ ParentOf[r.proc] = ParentOf[x.proc]
                      => r.tgt = x.tgt

\* Batches are consumed in the order they were queued: no row waits unclaimed
\* before a claimed one of the same step, and none that was archived came later
\* than one still unclaimed.
InOrder ==
  \A r \in bcq : ~Claimed(r) =>
    \A x \in bcq \union archive : x.proc = r.proc /\ x.id > r.id => ~Claimed(x)

\* No row is lost or doubled between the queue and the archive: the ids handed
\* out to a step are each in exactly one of the two tables.
Conservation ==
  \A s \in Subs :
    LET ids(rows) == {r.id : r \in RowsOf(s, rows)}
    IN  /\ ids(bcq) \intersect ids(archive) = {}
        /\ ids(bcq) \union ids(archive) = 1 .. lastId[s]
        /\ Cardinality(RowsOf(s, bcq)) + Cardinality(RowsOf(s, archive)) = lastId[s]

\* An archived row was consumed: it has a target batch, an output of its job.
ArchivedConsumed ==
  \A r \in archive : /\ r.state = "processed"
                     /\ r.tgt \in DOMAIN batches
                     /\ batches[r.tgt].job = ParentOf[r.proc]

\* What a step is fed comes from the job it is enqueued by, or from a file.
Provenance ==
  \A r \in bcq \union archive :
    IF EnqueuingProcess[r.proc] = NoProcess THEN r.src = InitialBatch
    ELSE /\ r.src \in DOMAIN batches
         /\ batches[r.src] = NoRun \/ batches[r.src].job = EnqueuingProcess[r.proc]

SameRow(r, x) == r.proc = x.proc /\ r.id = x.id

\* The target of a claimed row never changes: a rerun delivers the batch the
\* failed run had opened ("Target batch id would be the same").
TargetKept ==
  [][\A r \in bcq, x \in bcq' \union archive' :
        SameRow(r, x) /\ Claimed(r) => x.tgt = r.tgt]_vars

\* A row leaves the queue only when its job ends with success and the latest
\* execution of its step was no failure, although a failed step marks its rows
\* processed just as a successful one does.
ArchivedOnSuccess ==
  [][\A r \in bcq :
        (\A x \in bcq' : ~SameRow(r, x)) =>
          /\ LastState(r.proc) = "success"
          /\ LastState(ParentOf[r.proc]) = "running"
          /\ LastState(ParentOf[r.proc])' = "success"
          /\ \E x \in archive' : SameRow(r, x)]_vars

-----------------------------------------------------------------------------
(***************************************************************************)
(* The promise of JobLedger, kept.  A row is the item its id numbers: it    *)
(* waits while it has no target batch, is taken when it has one, and done   *)
(* in the archive.  The calls of a step change nothing the ledger shows.   *)
(***************************************************************************)
IdsOf(rows) == [s \in Subs |-> {r.id : r \in RowsOf(s, rows)}]
Ledger == INSTANCE JobLedger WITH
  Feeder  <- EnqueuingProcess,
  running <- {j \in Jobs : Running(j) # {}},
  last    <- lastId,
  waiting <- IdsOf({r \in bcq : ~Claimed(r)}),
  taken   <- IdsOf({r \in bcq : Claimed(r)}),
  done    <- IdsOf(archive)

\* Runs take rows from the front of the queues, keep them through failures, put
\* each away once and with a success only, and take no more before that.
KeepsLedger == Ledger!Spec

-----------------------------------------------------------------------------
(***************************************************************************)
(* What the documents say of the calls and the code does not do.           *)
(***************************************************************************)

\* "The framework is capable of resuming from the last successful step in case
\* of occurrence of a failure": initJob names a step to resume from when a
\* recoverable step succeeded in the run that failed.
ResumesAfterFailure ==
  [][\A j \in Jobs :
        /\ LastState(j) = "failed"
        /\ execs'[j] # execs[j]
        /\ \E s \in SubsOf(j) \intersect CanRecover : \E i \in DOMAIN execs[s] :
             execs[s][i] = [state |-> "success", during |-> Len(execs[j])]
        => recoverAt'[j] # NoProcess]_vars

=============================================================================
