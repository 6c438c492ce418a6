----------------------------- MODULE StreamRun ------------------------------
(***************************************************************************)
(* The runs of one streaming process as INSTANCE_EXEC shows them.  The     *)
(* REST call executeProcess starts a script, which submits a driver        *)
(* (StreamAnalyticsDriver), and only then inserts a row; the driver, when  *)
(* it has a Spark application, and when it fails, and the REST call        *)
(* killProcess each look for the LATEST row of the process and write it    *)
(* back whole.  Reading and writing a row are two transactions.            *)
(*                                                                         *)
(* Scripts, Spark and YARN are outside the repository.  A driver and its   *)
(* application are one here: the n-th driver has application n.            *)
(***************************************************************************)
EXTENDS Integers, Sequences

CONSTANTS
  Killers,     \* calls of killProcess that may overlap
  MaxExecutes  \* bound: calls of executeProcess

ASSUME StreamRunAssumption == MaxExecutes \in Nat

VARIABLES
  rows,     \* INSTANCE_EXEC rows of the process, oldest first
  inserts,  \* calls of executeProcess that have started a driver but no row
  drivers,  \* the drivers, in the order they were started
  killed,   \* the applications YARN has killed
  kill      \* the calls of killProcess under way

vars == <<rows, inserts, drivers, killed, kill>>

NoApp == 0
NoRow == 0
Row == [state : {"STARTED", "RUNNING", "KILLED", "FAILED"}, app : Nat]

\* A driver or killer about to write remembers the row it read, by number, and
\* what it will write there.
Driver == [phase : {"launched", "connecting", "running", "failing", "dead"},
           row : Nat, app : Nat]
Kill == [phase : {"idle", "yarn", "write"}, row : Nat, app : Nat]

TypeOK ==
  /\ rows \in Seq(Row) /\ inserts \in Nat
  /\ drivers \in Seq(Driver)
  /\ killed \in SUBSET (DOMAIN drivers)
  /\ kill \in [Killers -> Kill]

Latest == Len(rows)
Write(row, state, app) == rows' = [rows EXCEPT ![row] = [state |-> state, app |-> app]]
SetDriver(d, phase, row, app) ==
  drivers' = [drivers EXCEPT ![d] = [phase |-> phase, row |-> row, app |-> app]]
Stop(d) == SetDriver(d, "dead", NoRow, NoApp)

-----------------------------------------------------------------------------
(***************************************************************************)
(* executeProcess, in two steps.                                           *)
(***************************************************************************)
Execute ==
  /\ Len(drivers) < MaxExecutes
  /\ drivers' = Append(drivers, [phase |-> "launched", row |-> NoRow, app |-> NoApp])
  /\ inserts' = inserts + 1
  /\ UNCHANGED <<rows, killed, kill>>

\* An error here is logged and the call still answers OK.
Inserted == rows' = Append(rows, [state |-> "STARTED", app |-> NoApp])
Insert ==
  /\ inserts > 0
  /\ inserts' = inserts - 1
  /\ Inserted \/ UNCHANGED rows
  /\ UNCHANGED <<drivers, killed, kill>>

-----------------------------------------------------------------------------
(***************************************************************************)
(* The driver.                                                             *)
(***************************************************************************)

\* updateInstanceExecToRunning reads the latest row.  When there is none yet the
\* driver ends, and so does its handler for exceptions.
Connect_Ignored(d) ==   \* mutant: the driver goes on without a row
  /\ drivers[d].phase = "launched"
  /\ SetDriver(d, IF rows = <<>> THEN "running" ELSE "connecting", Latest, d)
  /\ UNCHANGED <<rows, inserts, killed, kill>>
Connect(d) ==
  /\ drivers[d].phase = "launched"
  /\ IF rows = <<>> THEN Stop(d) ELSE SetDriver(d, "connecting", Latest, d)
  /\ UNCHANGED <<rows, inserts, killed, kill>>

Connected(d) ==
  /\ drivers[d].phase = "connecting"
  /\ Write(drivers[d].row, "RUNNING", drivers[d].app)
  /\ SetDriver(d, "running", NoRow, NoApp)
  /\ UNCHANGED <<inserts, killed, kill>>

\* main catches an exception, before or after it is connected, and calls
\* updateInstanceExec.
Fail(d) ==
  /\ drivers[d].phase \in {"launched", "running"}
  /\ IF rows = <<>> THEN Stop(d) ELSE SetDriver(d, "failing", Latest, rows[Latest].app)
  /\ UNCHANGED <<rows, inserts, killed, kill>>

\* The test for KILLED looks at the state that was just set to FAILED, so the
\* row is written whatever it was.
Failed_Again(d) ==   \* mutant: the driver starts over after the failure
  /\ drivers[d].phase = "failing"
  /\ Write(drivers[d].row, "FAILED", drivers[d].app)
  /\ SetDriver(d, "launched", NoRow, NoApp)
  /\ UNCHANGED <<inserts, killed, kill>>
Failed(d) ==
  /\ drivers[d].phase = "failing"
  /\ Write(drivers[d].row, "FAILED", drivers[d].app)
  /\ Stop(d)
  /\ UNCHANGED <<inserts, killed, kill>>

\* A driver that is killed, or whose host dies, may end without a word.
Die(d) ==
  /\ drivers[d].phase # "dead"
  /\ Stop(d)
  /\ UNCHANGED <<rows, inserts, killed, kill>>

-----------------------------------------------------------------------------
(***************************************************************************)
(* killProcess.  Without an application id, or a row, the call fails.      *)
(***************************************************************************)
KillRead(k) ==
  /\ kill[k].phase = "idle"
  /\ rows # <<>>
  /\ rows[Latest].state \notin {"KILLED", "FAILED"} /\ rows[Latest].app # NoApp
  /\ kill' = [kill EXCEPT ![k] = [phase |-> "yarn", row |-> Latest, app |-> rows[Latest].app]]
  /\ UNCHANGED <<rows, inserts, drivers, killed>>

\* The command may fail; it may also succeed for an application that is over.
YarnKill_Ignored(k) ==   \* mutant: the result of the command is not looked at
  /\ kill[k].phase = "yarn"
  /\ \/ killed' = killed \union {kill[k].app}
     \/ UNCHANGED killed
  /\ kill' = [kill EXCEPT ![k].phase = "write"]
  /\ UNCHANGED <<rows, inserts, drivers>>
YarnKill(k) ==
  /\ kill[k].phase = "yarn"
  /\ \/ /\ killed' = killed \union {kill[k].app}
        /\ kill' = [kill EXCEPT ![k].phase = "write"]
     \/ /\ kill' = [kill EXCEPT ![k].phase = "idle"]
        /\ UNCHANGED killed
  /\ UNCHANGED <<rows, inserts, drivers>>

KillWrite(k) ==
  /\ kill[k].phase = "write"
  /\ Write(kill[k].row, "KILLED", kill[k].app)
  /\ kill' = [kill EXCEPT ![k].phase = "idle"]
  /\ UNCHANGED <<inserts, drivers, killed>>

-----------------------------------------------------------------------------
Init ==
  /\ rows = <<>> /\ inserts = 0
  /\ drivers = <<>> /\ killed = {}
  /\ kill = [k \in Killers |-> [phase |-> "idle", row |-> NoRow, app |-> NoApp]]

Next ==
  \/ Execute \/ Insert
  \/ \E d \in DOMAIN drivers : Connect(d) \/ Connected(d) \/ Fail(d) \/ Failed(d) \/ Die(d)
  \/ \E k \in Killers : KillRead(k) \/ YarnKill(k) \/ KillWrite(k)

Spec == Init /\ [][Next]_vars

-----------------------------------------------------------------------------
(***************************************************************************)
(* Properties.                                                             *)
(***************************************************************************)
Alive(d) == drivers[d].phase \in {"connecting", "running", "failing"} /\ d \notin killed

\* A row never says KILLED of an application that is still running, although
\* another execution may have taken the row over since killProcess read it.
KilledIsDead ==
  \A i \in DOMAIN rows : rows[i].state = "KILLED" => ~Alive(rows[i].app)

\* With one execution, a row that says KILLED or FAILED never says RUNNING again,
\* although the driver and every killProcess write back a copy of the row they
\* read before, and killProcess may win or lose against the driver's failure.
Over(row) == row.state \in {"KILLED", "FAILED"}
OverForGood ==
  [][\A i \in DOMAIN rows : Len(drivers) = 1 /\ Over(rows[i]) => Over(rows'[i])]_vars

\* The application of a process that was executed once can always be killed: its
\* row says RUNNING and names it, although row and driver start at the same time
\* and neither waits for the other.  A second execution takes that away.
CanBeKilled ==
  Len(drivers) = 1 /\ drivers[1].phase = "running" /\ Alive(1)
    => rows = <<[state |-> "RUNNING", app |-> 1]>>

=============================================================================
