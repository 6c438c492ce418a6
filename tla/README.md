# Verification of the StreamGrids / BDRE metadata framework

StreamGrids ("Bigdata Ready Enterprise", BDRE) keeps the metadata of batch jobs
and of Spark streaming processes in a relational database. A Java DAO layer
changes it; workflow engines, shell scripts, a Spark driver and a REST service
call that layer, often at the same time. This directory models the parts that
keep and change state, checks them with TLC, and proves the main results with
TLAPS. Paths below are relative to the repository; `dao/` stands for
`md-dao/src/main/java/com/wipro/ats/bdre/md/dao/`, `api/` for
`md_api/src/main/java/com/wipro/ats/bdre/md/api/`, `rest/` for
`md-rest-api/src/main/java/com/wipro/ats/bdre/md/rest/`.

## Inventory

| Part | State it keeps | Operations | Called by | Modelled in |
|---|---|---|---|---|
| Job, step and batch control (`dao/JobDAO`, `StepDAO`, `BatchEnqueuerDAO`) | `INSTANCE_EXEC`, `BATCH`, `BATCH_CONSUMP_QUEUE`, `ARCHIVE_CONSUMP_QUEUE` | initJob, haltJob, termJob, initStep, haltStep, termStep, batchEnqueue | nodes of a workflow, file monitors | `JobControl`, `ExecRaces`; `JobLedger` is what they promise |
| Job workflow (`api/InitJob` ... `TermStep`, `api/oozie`, `workflow.md`) | the node each branch has reached (in Oozie or Airflow) | one program per node | the engine | `JobWorkflow` |
| Deployment queue (`dao/ProcessDeploymentQueueDAO`, `DeployDAO`, `FetchDeployDAO`) | `PROCESS_DEPLOYMENT_QUEUE` | insert, delete, edit, fetch, initDeploy, haltDeploy, termDeploy | REST service, deployers | `DeployQueue` (without the edit form) |
| Streaming run (`rest/ProcessAPI`, `api/InstanceExecAPI`, `dao/InstanceExecDAO`) | `INSTANCE_EXEC` rows of a streaming process | executeProcess, killProcess, the driver's reports | web interface, Spark driver | `StreamRun` |
| Streaming pipeline (`spark-streaming/.../StreamAnalyticsDriver`) | the graph of steps, what is set up so far | identifyFlows, invokeDStreamOperations, transformAndEmit | the driver's main | `StreamPipeline` |
| Process catalogue (`dao/ProcessDAO`, `rest/ProcessAPI`, `SubProcessAPI`) | `PROCESS`, `PROPERTIES` | create, update, delete, clone, import | web interface | `ProcessCatalog`: the steps of a workflow (get, insert, update, delete, clone); not whole workflows, import, properties, permissions |
| Workflow designer (`md-ui/.../js/fc`) | the chart of a workflow, a cache of its steps' records, the open details window | load, add, duplicate, link, remove, rename | the user | `WorkflowDesigner`: without positions, names and properties |
| Persistence triggers (`triggers/`) | - | checks of a row before it is written | the catalogue | no: they refuse none of the requests modelled |
| App store queue (`rest/AppDeploymentQueueAPI`) | `APP_DEPLOYMENT_QUEUE`, `store.json` | insert, merge, reject | web interface | no; planned |
| Positions (`api/ArrangePositions`) | levels and positions in `PROPERTIES` | one pure algorithm | web interface | no; planned |
| Daemon (`bdre-scripts/local/bin/bdre`) | the PID file | start, stop, restart, status | the host | no; planned |
| File registry, lineage, properties, users, servers, login | single tables | row by row | everything | no: nothing depends on an order of steps |
| Spark sources, operators, stores | contents of messages | Spark code | Spark | no: data, not control |
| The rest of the web interface, database setup, beans | - | - | - | no: forms that send one request, vendored or generated |

How the parts meet: they share the tables. A workflow calls the job control
node by node; the output batch of a job becomes input of the jobs downstream;
the streaming run and the job control write the same `INSTANCE_EXEC` table, of
different processes; the catalogue is read by all and changed by the web
interface, by the workflow designer with several requests for one command of
the user. No part locks what it reads: a DAO call is one transaction, and two
calls of the same program are two.

What is hard, part by part, and what makes it correct:

* **Job control.** Queries that pile up one more `process = ?` for every step
  they should look at, so that they check the first step only; rows claimed by
  position; a failed run whose claimed rows the next run takes over. Correct: no
  process runs twice, a step runs inside the running run of its job, a run's
  rows agree on one batch that the run owns, rows are consumed in order, none is
  lost or doubled, none is archived unless consumed with success.
* **Overlapping calls.** Check and write in one transaction, without a lock.
  Correct would be that no process runs twice and no step without its job; neither
  holds (findings). What remains: a process has no more executions running than it
  has clients.
* **Workflow.** Nodes that fail before or after their call took effect, branches
  that fail beside others, runs that are repeated. Correct: a step starts after
  its predecessors succeeded in the same run, output is delivered downstream
  once and only of a run that succeeded, a run ends in the metadata too, and the
  rows of a failed run never keep it from being repeated.
* **Deployment queue.** Several deployers at one row, calls that write back late
  what they read without a lock, crashes between fetch and start. Correct: oldest
  first, a running row is at somebody's script, a result that no call in flight is
  about stays, and every row has a result in the end.
* **Streaming run.** Rows written back whole long after they were read, and a
  driver that races the insertion of its own row. Correct: KILLED means dead, a
  running application can be killed, what is over stays over; the last two only of
  a process that is executed once.
* **Streaming pipeline.** A recursive walk over a graph with several paths to a
  step. Correct: each step once, after its inputs, and the walk ends when the graph
  has no cycle; none is left out when steps listed together have the same inputs.
* **Workflow designer and catalogue.** The next ids of a step are text without a
  foreign key. A command of the user changes the chart first and then the table,
  with several requests, each of several transactions, from records cached long
  before; any of them can fail. Correct: lists name steps that exist, a step is in no
  list at the moment its deletion is answered, the workflow starts with live steps,
  and a chart that was loaded whole hides no stored link.

`PROJECT.json` lists the hazards one by one with their lines.

## Modules

| Module | Content |
|---|---|
| `JobControl` | one action per DAO call, over the four tables |
| `JobLedger` | an abstract job: queues from which runs take, and what they put away |
| `JobControlProofs` | types of `JobControl`, that runs are nested, and its rows and batches |
| `JobLedgerProofs` | `JobControl` implements `JobLedger` |
| `ExecRaces` | the same calls on `INSTANCE_EXEC` as overlapping transactions |
| `ExecRacesProofs` | how often a process can run at a time, however calls overlap |
| `JobWorkflow` | EXTENDS `JobControl`: the engine's nodes, each making one call |
| `JobWorkflowProofs` | order of steps, what a completed run leaves and delivers, how runs end, and that a failed one can be repeated |
| `DeployQueue`, `DeployQueueProofs` | the queue, its users and deployers, with calls as overlapping transactions; order, results, who is at a running row |
| `StreamRun`, `StreamRunProofs` | executions of a streaming process; KILLED is true, and what holds of a single run |
| `StreamPipeline`, `StreamPipelineProofs` | the driver's walk over the graph of steps; order, and nothing left out |
| `ProcessCatalog` | the steps of a workflow in `PROCESS`, and the service that changes them |
| `WorkflowDesigner` | EXTENDS `ProcessCatalog`: the browsers and their commands |
| `WorkflowDesignerProofs` | lists and charts name steps that exist; with one browser, starts, deletions and hidden links |
| `MC...` | catalogues, graphs and clients for TLC |

Definitions marked "mutant" are faulty variants of the definition that follows.
The specifications do not use them; each is a fault some property notices.

### JobControl

`execs[p]` is the history of executions of a process (`INSTANCE_EXEC`), oldest
first. An execution of a step also records in `during` how many runs of its job
had begun, which a comparison of `START_TS` would tell. `batches` is `BATCH`
with the run that owns each; `bcq` and `archive` are the queue and its archive.
A call that throws rolls its transaction back and is no step of the model.

* `InitJob` is the whole of `JobDAO.initJob` (55-445): the checks (`NotRunning`
  with the query that reaches the first step only, `HasBatches`), then either
  `FreshRun` (rows for the steps nothing enqueues to, the claim of `maxBatch`
  rows of every step, a new batch) or `Rerun` (rows still claimed by a failed
  run: their batches are linked to the new run). `LastRecoverable` is what the
  call returns as the step to resume from.
* `HaltJob` moves consumed rows to the archive and hands the output batch to
  the steps downstream; `TermJob` fails the oldest running execution.
* `InitStep`, `HaltStep`, `TermStep` are `StepDAO`'s calls; both ends of a step
  mark its rows processed.
* `BatchEnqueue` is a file that arrives, in a new batch or in one that earlier files
  made. The DAO takes the id of any batch (`BatchEnqueuerDAO:59`); a caller that
  names the batch of a run, and so hands that run's output out once more by its own
  choice, is left out.

Queries without `ORDER BY`: one on a single process is taken to return rows in
the order of their ids (the index of InnoDB ends in the primary key); of one
over several processes the model only assumes that its first row is the oldest
of one of them. `maxBatch` beyond the rows there are makes the call fail
(`EnoughRows`), since the loop runs past the end of the list.

Not in the model: a batch-cut pattern. Its branch (`JobDAO` 309-336) restricts
an association by a plain number, which Hibernate refuses, so a job with such a
step is never started.

### JobLedger

What a job promises to those that feed it and those it feeds, without batches,
steps' executions or the archive's layout: each step has a queue of numbered
items. A run that begins takes items from the front of the queues, and takes
none while some are taken; a failed run keeps them; a run that succeeds may put
taken items away; items are only added at the end. The refinement
(`JobControl!Ledger`, property `KeepsLedger`) maps a row to the item its id
numbers: waiting without a target, taken with one, done in the archive. initJob
is a run that begins or goes on, haltJob and termJob are its ends, a file is an
arrival, and the calls of a step are stutters.

### ExecRaces

A client first reads and decides (`Read`), later writes what it decided
(`Commit`) or dies (`Rollback`). That is what a MySQL transaction of
these calls amounts to: plain selects take no locks, repeatable read hides later
commits, and Hibernate updates whole rows without a version. `Serves` says which
processes each client makes calls for. Two clients that end one execution overwrite
each other's outcome; the model has that, and no document promises otherwise.

### JobWorkflow

The graph is that of `workflow.md` and of the generated workflow: `InitJob`, for
each step `InitStep`, action, `HaltStep` or `TermStep`, then `HaltJob`, with
failures leading to `TermJob` and the kill node. Each node makes one call of
`JobControl`. With `Unreliable` a node may fail before its call took effect, or
after: the programs commit first and then parse and store the result. A reliable
node fails only when its call is refused, which `AcceptsInitJob`,
`AcceptsInitStep`, `AcceptsEndStep`, `AcceptsHaltJob` and `AcceptsTermJob` of
`JobControl` say with the guards of the calls. The engine itself is outside the
repository.

### DeployQueue

Rows by `DEPLOYMENT_ID`. The calls are transactions as in `ExecRaces`: one step
reads and decides, a later one commits, and `call` is what a deployer is about to
write in between. An insertion is `AskInsert` (the check) and `CommitInsert`; ids
follow the commits, because nothing happens between the save and the commit. A
deletion is one step, as it tests nothing. `Fetch` is going to mark the first
`FetchNum` waiting rows and returns the first `FetchNum` *picked* rows, whoever
picked them, as `FetchDeployDAO` does. `InitDeploy` and `EndDeploy` decide by the
status they read (`StartWrites`, `EndWrites`) and go on when the DAO refuses,
because the DAO only logs it. `Commit` writes over whatever has become of the rows.
A row that was deleted meanwhile is gone from the table: the update finds no row,
Hibernate throws, and the deployer gets an exception (`Fail`); so a late commit
cannot bring a deleted row back. Other failures of the database are left out. The
deployer program is not in the repository and is modelled from the calls it makes.

### StreamRun

`rows` are the executions of one streaming process. `Execute` starts a driver;
its row is inserted later (`Insert`) or never, since an error there is only
logged. The driver reports RUNNING (`Connect` reads the latest row, `Connected`
writes it back) and FAILED (`Fail`, `Failed`); `killProcess` reads, asks YARN,
and writes back (`KillRead`, `YarnKill`, `KillWrite`). The n-th driver has
application n.

### StreamPipeline

`IdentifyFlows` is a round of the loop over the next ids. The recursion of
`transformAndEmit` is a stack of the lists still to visit; `Ready` is the test
that makes a call return when an input of any step of its list is missing.
`main` hides the static `parentProcessId` behind a local of the same name, so
the static is null, the count of covered emitters is dead code, and a graph in
which only operators lead to the job ends with a null pointer (`VisitParent`).

### ProcessCatalog

`rows` are the steps of a workflow, `starts` the next ids in the workflow's own
row, `req` the request of each browser and how far the service is with it. A
request that uses several transactions is several steps: `InsertChild` and
`Adopt` (a source is inserted, then appended to the workflow's list, as read
before); `Neighbours`, `Rewire` and `Flag` (a deletion reads all lists that name
the step, rewrites them one by one, flags the row last). `Fail` breaks a request
off between any two of them, or loses its answer. A list is what `split(",")`
finds in the text, with `Blank` for the empty string; a deletion joins a hash
set, so the order of what is left is open (`Joined`). `Valid` is the bean's
pattern, which refuses a list with a blank.

### WorkflowDesigner

Per browser: the `chart`, the `cache` of records (`nodeProcessCache`), the
details window (`panel`) and the command it is busy with (`work`). Requests are
synchronous, so a browser does nothing else until the answer. `DrawLink` draws,
then `Fetch` and `PostLink` store; `DeleteSelected` sends a DELETE for every
node, then a GET (unless the record is cached) and a POST for every link, and
`RemoveSelected` clears the chart at last, whatever the service said. `PostLink`
and `PostUnlink` change the cached record before the POST, as the code does.
`Unlinked` is the list arithmetic of `deleteSelected`, its `splice(-1, 1)`
included. `Open` is the loading of the page; it stops drawing links at the first
one that cannot be drawn, because the code throws there. `whole` says of a chart
that the load drew every link and that no record of a removed link's step was
out of reach since (`Fetched`); `NothingHidden` is about such charts.

## Runs

| Run | Instance | Shows |
|---|---|---|
| `job_chain` | job 10 (one step) feeding job 20 (two steps), two runs of each process but one, `maxBatch` 1 or 2, one file | the guarantees of the calls in any order, and that they implement `JobLedger` |
| `job_resume` | a job of two steps, two runs | finding: no step to resume from |
| `wf_chain` | two steps in sequence and a job downstream, reliable nodes | a workflow that ends leaves nothing RUNNING, and every run ends |
| `wf_flaky` | two parallel steps joined before a third, and a job downstream, nodes failing at will | order of steps, one delivery, a failed run can be repeated |
| `wf_fork` | the same fork, reliable nodes | finding: TermJob is refused beside a running branch |
| `deploy` | two deployers, three users, one process, three rows, one crash, two rows fetched at a time | order, who is at a running row, results, progress |
| `races_twice` | two programs that start and end one job | finding: the job runs twice |
| `races_step` | the two branches of a workflow | finding: a step runs without its job |
| `pipeline` | all graphs of two sources, two operators and a sink with one or two next ids | each step once and after its inputs, none left out where listed steps share their inputs, an end where there is no cycle |
| `stream_run` | two executions, two calls of killProcess | KILLED is true, a running application can be killed |
| `designer` | one browser, two steps of three kinds, two links, lists of up to three ids, two failures (1.1 million states) | lists, chart and table agree as far as stated, wherever requests break off |
| `designer_unlink` | one browser, three steps, two links, no failure | finding: removing one link deletes another |

Why the bounds suffice. Two runs of a job give every pair "a run and the
one after it": a failure and its rerun, a success and its successor, a leftover
row; the properties relate at most two successive runs. Two steps are the least
on which a check of "the first step only" goes wrong, and step 22 is limited to
one run in `job_chain` because it is the later of two alike. One file beside the
rows handed down makes two rows wait at one step, so that there is an order to
violate. In `wf_flaky` `maxBatch` is 1 or 2, so a rerun meets steps with a row that
was claimed and one that was not. `FetchNum` is 2 in `deploy`
(`process-deploy.sh` asks for 5): more than one, and fewer than the rows. Three rows
for two deployers that fetch two at a time leave one waiting while others are
picked, and three users let the insertions overlap, with two rows of one process in
the queue; all the ways a late commit can undo another occur (a result replaced by
the other result, by running and by picked). One crash is enough, as a second meets the same states. With one row
fetched at a time and two processes the properties hold too, and two deployers are
at one script all the same. A diamond, a
step with two inputs, a step listed beside one that waits, and cycles all occur
among graphs of five steps. Two executions of a streaming process are the least
that share a row. Two steps with two links let a list be rewritten twice from one
cached record and a deletion rewire a neighbour and the workflow's row; two
failures let a command meet what the failure of an earlier one left. Larger
charts are beyond an exhaustive run: with three steps the first 8 million states
and, with four steps and four links, random behaviours of 10 million states
showed no violation.

The types of `ExecRaces`, `StreamRun` and `StreamPipeline` are proved, for all
constants, and not run again.

Deadlock is checked in `designer`: a page can always be loaded again. Elsewhere
it is not: every bound lets a model stop, and a system without work to do may.

Symmetry: the calls of `killProcess` in `stream_run`, which only its invariants
and one action property are checked with. Processes are numbers, since the code compares their ids.

## Fairness

* `WorkflowSpec`: weak fairness of `Engine(j)`. The engine goes on with a
  workflow it has started and actions end, as Oozie's retries and time-outs
  provide; it need not start one (`InitJobNode` is not fair), and no file need
  arrive.
* `DeployQueue`: weak fairness of each deployer: the scheduler starts a dead one
  again, calls return, and scripts end. Users and crashes are not fair.
* `StreamPipeline`: weak fairness of `Next`: a running program goes on.
* `JobControl`, `ExecRaces`, `StreamRun` and `WorkflowDesigner` state safety only: a
  user need not do anything, and the browser waits for an answer without a limit.

## Proofs

TLC checks an instance, the theorems hold for every value of the constants that
satisfies the named assumptions (`CatalogueAssumption`, `WorkflowAssumption`,
`StreamRunAssumption`, `DeployAssumption`, `PipelineAssumption`,
`CatalogAssumption`, `DesignerAssumption`), which the modules state and TLC
evaluates. `RacesAssumption`, on the types of the constants of `ExecRaces`, is a
hypothesis of that module's theorems. Some theorems assume more, by name
and in their statement: `Distinct`, `Sequential /\ ~Unreliable` and
`OneBrowser`, each explained below; without it the property is false.

**Calls (`JobControlProofs`).** `TypeCorrect`: the tables keep their types.
`RunsAreNested`: `[](OneInstance /\ StepsUnderJob)`. The invariant is `ExecInv ==
TypeOK /\ OneInstance /\ StepsUnderJob`. Neither part is inductive alone. initJob
checks the job and its first step only; that no other step is still running
follows from `StepsUnderJob`, as a running step would need a running job. haltJob
and termJob close the job only when no step runs, and by `OneInstance` the
execution they close is the only one.

**Rows and batches (`JobControlProofs`).** Three invariants, each inductive on top of
the one before:

* `IdsInv`: the ids handed out to a step are those of one row each, in one of the
  two tables. It gives `NoRowLost` (`Conservation`), by a count over a finite set.
* `OrderInv`: rows are claimed from the front, and marked rows are claimed or
  belong to a step nothing enqueues to. It gives `ConsumedInOrder` (`InOrder`).
* `BatchInv`: what is claimed aims at the batch of the latest run. A fresh run
  begins only when nothing is claimed, a rerun relinks the one batch there is.
  It gives `OneBatchPerRun` (`RunOwnsBatch`, `OneTarget`), `FiledAndFed`
  (`ArchivedConsumed`, `Provenance`) and `TargetNeverChanges` (`TargetKept`).

`FiledOnSuccess` (`ArchivedOnSuccess`) adds that a processed row belongs to a step
that has run (`ProcessedHaveRun`).

**Refinement (`JobLedgerProofs`).** `LedgerKept`: `Spec => KeepsLedger`. Initial
states map to initial states, and each call to a step of the ledger or a stutter;
that a run takes from the front is `InOrder`, that it takes only when nothing is
taken is the test `IsRerun`, that what it puts away was taken is
`ArchivedConsumed` with `OrderInv`.

**Workflows (`JobWorkflowProofs`).** A node makes its call or none
(`WorkflowMakesCalls`), so all of the above holds in a workflow. `StepsInOrder`
(`StepOrder`) and `CompletedRunsAreComplete` (`EveryStepRan`) follow from
`FlowInv`: a branch that is done, in a workflow that is on, succeeded in the run
the job is at (`DoneRan`); `StepsUnderJob` tells in which run. `NothingLeft`
(`NothingLeftClaimed`) adds that such a branch has processed all rows claimed for
its step (`DoneProcessed`). `DeliveredOnceOfSuccess` (`DeliveredOnce`,
`OutputOfSuccess`) uses that: a batch that was handed on belongs to a run that
succeeded; nothing is claimed after it, so no later run takes the batch over, and
a run that is being halted has handed on nothing yet. The proofs use of a failing
node only that its call was made or not.

`FailedRunsCanBeRepeated` (`RerunsAreAccepted`): while rows are claimed, initJob is
refused only to a job that still runs, whatever failed. No step can be running then
(`StepsUnderJob`), and every step that another job feeds has a row (`HasBatches`
compares their numbers only). The invariant `WedgeInv` says that when one step of a
job has claimed rows, all its steps that anything enqueues to have (`AllClaimed`), and
that initJob writes rows itself only for a job none of whose steps is fed by
another (`SelfFed`). Rows are claimed from the front (`OrderInv`), so when a job
is to be rerun, the oldest row of each of its steps has a target.

`EndedJobsAreNotRunning` (`KilledIsFailed`): a workflow that ended has no execution
still RUNNING. It assumes `Sequential`, no two branches at a time, and reliable
nodes. Both are needed: beside a branch that runs, TermJob is refused (finding
`wf_fork`), and an unreliable TermJob may fail without its call. By `KilledInv` what
comes before a step that was begun is done (`InLine`), so at most one step is on
its way; a workflow is live exactly when its job runs (`LiveRuns`), a branch is on its
way exactly when its step runs (`StepRuns`) and only while the workflow is among
its steps (`RunsInSteps`), and a workflow comes to TermJob because all branches
are done or one has failed (`EndsForAReason`).

**Overlapping calls (`ExecRacesProofs`).** `TypeCorrect`, and `RunningIsBounded`
(`OneEach`): the running executions of a process are at most the clients that serve
it, so a process with one client runs once, whatever other clients do to its job or
its steps. The invariant counts with the running executions the calls about to
start one: such a call was decided when nothing ran, and a client has one call.
The finding `races_twice` is the case of two clients, and `races_step` shows that
even with one client each a step and its job can pass each other.

**Deployment (`DeployQueueProofs`).** `TypeCorrect`, `OldestFirst` (`NoOvertaking`),
`RunningIsDeployed` (`RunningHasDeployer`) and `ResultsSettle` (`ResultSettled`), for
any number of users, deployers, rows fetched at a time and crashes. `OrderInv` adds
to `NoOvertaking` that the rows a fetch is about to mark have no waiting row before
them that it leaves out (`FrontTaken`): rows only enter the queue at its end and
never wait again, so what was read stays at the front. `RunInv` adds that
a deployer's call to start or end a script is about the row it is at (`CallsAtHome`),
so what a late commit turns back to running has a deployer. `ResultsSettle` needs
the types only: a call begins to be about a row that has a result in no case.

**Streaming.** `StreamRunProofs!TypeCorrect`, `KilledRowsAreDead`: the invariant
adds that applications anyone is about to write exist (`AppsExist`), and that a
call which is about to write has killed the application it will write
(`KillsAreReal`). The row may have changed meanwhile; the copy has not. `RunningCanBeKilled`
(`CanBeKilled`) and `RunsOverStayOver` (`OverForGood`) are about a process
executed once: by `SingleInv` every copy the driver and the calls of killProcess
hold is then of the one row, in a state that row has had.
`StreamPipelineProofs!InputsAreThere` (`InputsFirst`), on every graph, cycles
included: the flows found are the graph's (`FlowsKept`), and the steps of a list on
the stack have their inputs (`ReadyFrames`), which only grow. `SetUpOnce`
(`RunsOnce`) assumes `Distinct`, that no list of next ids names a step twice: the
lists on the stack are then disjoint and unvisited (`Unvisited`). Without it the
code does set a step up twice (see below). `NothingLeftOut` (`Coverage`): a
step whose inputs are all set up is set up itself or waits in a call (`Pending`),
and at the end no call is left (`Ends`). So a step left out lacks an input, that
input is left out too, and so on. The steps are finitely many, so the inputs run
in a circle; but as long as steps that can be reached lead to each other in a
circle, some of them are among the next ids of every round of `IdentifyFlows`
(`Circling`), and the driver never comes to set anything up.

**Designer (`WorkflowDesignerProofs`).** The operators on lists use no
recursion, so what they return can be proved: `InOrderFacts` (a finite set
put in an order, each element once), `AtFacts` and `DrawnArrowsFacts` (the links a
load draws), and the like. `TypeCorrect`, `ListsNameSteps`
(`NamesExist`) and `ChartsAreClosed` (`ChartClosed`) hold for any number of browsers.
`NamesInv` says that every list anywhere names rows that exist: in the table, on
a chart, in a cached record, in the open window, in a request and in what a
service call has read and will write later. Rows are flagged and never removed,
so what is known stays known, however requests interleave.

`WorkflowStartsLive` (`StartsAreLive`), `AnsweredDeletionUnlinks`
(`DeletionUnlinks`) and `NoLinkIsHidden` (`NothingHidden`) assume `OneBrowser`. Two
browsers write whole rows from their own caches, and the properties are false. The
invariant is `OneInv`:

* `Fits`: the request under way is one of the command the browser is busy with, so
  nobody changes a row between what a service call reads and what it writes.
* `StartInv`: what the workflow starts with is live, and so is what an insertion or
  a deletion is about to write in its place; a deletion still has every list that
  names its step to do. `UnlinkedBy` is the same once it is answered.
* `DrawnInv`: a link may be *told* (`Tells`) by a row, by a cached record, by the
  open window, or by a request on its way. Any of them can end up in the table, so
  `NothingHidden` is inductive only if it speaks of all: what is told between steps
  of a whole chart is drawn (`ToldDrawn`). Only `PostLink` makes anything tell more,
  and it tells a link that is drawn already (`DrawShown`); every other step is
  `Silent`. A removal clears the chart at its end, so until then the links it has
  done with must be told by nothing (`CutUntold`, `CutPosted`).

Model-checked only: the liveness properties `RunsEnd`, `Deployed` and `Decides`,
because the prover does not reason about fairness and `ENABLED`. Every other
property of a passing run is stated by a theorem. The properties of the findings
are false and have a counterexample instead.

## Findings

Each is a violation run with its counterexample.

1. `job_resume`: the step to resume from is never found for a job of two or more
   steps (`JobDAO:152`), against `metadata.md:37`.
2. `wf_fork`: when one of two parallel branches fails, TermJob is refused and
   the job stays RUNNING for ever (`JobDAO:660`), against `workflow.md:22`.
3. `races_twice`: two initJob calls that overlap both start the job (`JobDAO:109`),
   against `metadata.md:10`.
4. `races_step`: a step starts while its job ends (`StepDAO:75`), against
   `metadata.md:11`.
5. `designer_unlink`: the removal of one link takes another out of the table
   (`js/fc/app.js:1426`), against `flowchart_viewmodel.js:771`.

Observed while modelling, without a run of their own.

Job control: haltJob accepts a job one of whose steps never ran (`JobDAO:523`;
`metadata.md:26` asks for all of them; in a workflow the graph prevents it,
`EveryStepRan`); initJob fails when a step has fewer rows than `maxBatch`
(`JobDAO:283`; `metadata.md:41-42` calls it an upper limit); the step to resume
from is looked for in the whole history (`JobDAO:150`); haltStep and termStep of
two programs overwrite each other's outcome (`StepDAO:286`).

Deployment: two deployers run the script of one row, also when each fetches one row
at a time (`FetchDeployDAO:79` returns rows whoever picked them, and the refusal at
`DeployDAO:91` is only logged). When their haltDeploy and termDeploy overlap, the
later commit replaces the result of the earlier (`DeployDAO:139`), and a late
commit of initDeploy or fetchDeploy turns a row with a result back to running or
picked; the script is then run again or its end is recorded again, so that the row
gets a result once more (`Deployed`). A process whose row is picked can be queued a
second time (`ProcessDeploymentQueueDAO:120`), and two overlapping insertions
queue it twice; the edit form writes back an old status
(`ProcessDeploymentQueueAPI:210`).

Streaming: FAILED replaces KILLED when the driver reports the kill
(`InstanceExecAPI:55`); two next ids that do not wait for the same inputs may
leave a step out (the condition `Together` in `Coverage`); a list that names a step
twice, which the designer stores when a link is drawn twice, makes the driver set
the step up twice.

Designer: deleting everything, or any step behind its open details window, and
then saving the window writes the step back without its delete flag; so does
selecting all with a link between them, when the POST of the link's source follows
its DELETE. Removing a link or duplicating a step leaves the list `0`, and the next
load throws on it, with the links behind it undrawn. Deleting a step's only
successor leaves the empty list, which the pattern of the bean refuses in every
later POST of that record. A refused POST during a removal ends the command with
nodes on the chart that are deleted in the table; a refused DELETE removes the node
from the chart and not from the table. A source whose second transaction fails is in
the table and never started. A copy of a source is not in the workflow's list, and
has an input connector. A link to a step without links replaces the cached text by
a number, and when that POST fails the next removal throws. With two browsers
open, each writes whole rows from its own cache over the other's.

## Plan

Done: the modules above, in the order job control, workflow, deployment, races,
pipeline, streaming run, ledger, catalogue and designer. Left, most useful first:

1. Whole workflows in `ProcessCatalog`: creation, import and export, deletion of a
   workflow, with the checks of the persistence triggers.
2. `AppStore`: merge and reject with `store.json`, two users at once.
3. `ArrangePositions`: the recursion over levels, compared with the longest path
   from the root on bounded graphs.
4. `Daemon`: start, stop and crash with the PID file.
5. The edit form of the deployment queue.

## Not modelled

* App store, positions, daemon, whole workflows of the catalogue: possible, see the
  plan.
* File registry, lineage, properties, users, servers, login, the REST controllers of
  single tables, the other pages of the web interface: each operation reads or
  writes one row or one table and nothing later depends on an order of steps.
* Persistence triggers: the requests that are modelled pass them.
* What sources, operators and stores do with messages: Spark code on data.
* Libraries kept in the tree. Of the JavaScript, `js/fc` (the designer) is the
  program's own; nearly all of the rest is jQuery, its plugins, Angular, Chart,
  flot, select2 and the like. The program itself is mostly Java.
