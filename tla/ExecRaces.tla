----------------------------- MODULE ExecRaces ------------------------------
(***************************************************************************)
(* The calls of JobDAO and StepDAO that start and end executions, as the   *)
(* transactions they are.  Module JobControl makes each a single step; here *)
(* a call first reads the INSTANCE_EXEC table and decides, and later       *)
(* commits what it decided.  The queries take no locks, a transaction goes *)
(* on reading what it read first, an update writes the whole row, and the  *)
(* rows have no version: nothing makes a commit look at the table again.   *)
(*                                                                         *)
(* Only INSTANCE_EXEC is modelled: a call may also be refused for what is  *)
(* in other tables, and a refused call is no step.                         *)
(***************************************************************************)
EXTENDS Integers, Sequences, FiniteSets

CONSTANTS
  Job,       \* the process id of the job
  Subs,      \* the process ids of its steps
  Clients,   \* programs that call the metadata at the same time
  Serves,    \* the processes each client makes calls for
  MaxRuns    \* bound: executions of each process

Processes == Subs \union {Job}

\* What the proofs assume of the constants.
RacesAssumption ==
  /\ Subs \subseteq Nat \ {0} /\ Subs # {} /\ Job \in Nat \ Subs
  /\ IsFiniteSet(Clients) /\ Serves \in [Clients -> SUBSET Processes]
  /\ MaxRuns \in Nat

VARIABLES
  execs,  \* INSTANCE_EXEC: the states of the executions of each process, oldest first
  call    \* for each client, the call it has read for and not yet committed

vars == <<execs, call>>

ExecState == {"running", "success", "failed"}
Idle == [proc |-> Job, row |-> 0, state |-> "idle"]

\* A call will give execution "row" of "proc" the state "state", or insert an
\* execution in that state: the table gives it an id when it is saved.
New == 0
Call == [proc : Processes, row : Nat, state : ExecState]
TypeOK ==
  /\ execs \in [Processes -> Seq(ExecState)]
  /\ call \in [Clients -> Call \union {Idle}]

-----------------------------------------------------------------------------
FirstSub == CHOOSE s \in Subs : \A t \in Subs : s <= t
Running(p) == {i \in DOMAIN execs[p] : execs[p][i] = "running"}
LastState(p) == IF execs[p] = <<>> THEN "none" ELSE execs[p][Len(execs[p])]

(***************************************************************************)
(* What the calls read, and the write each goes on to make.                *)
(***************************************************************************)
Starts(p) == [proc |-> p, row |-> New, state |-> "running"]
Ends(p, i, state) == [proc |-> p, row |-> i, state |-> state]

InitJob == IF Running(Job) = {} /\ Running(FirstSub) = {} THEN {Starts(Job)} ELSE {}

HaltJob ==
  IF /\ Cardinality(Running(Job)) = 1
     /\ \A s \in Subs : Running(s) = {} /\ LastState(s) # "failed"
  THEN {Ends(Job, i, "success") : i \in Running(Job)} ELSE {}

\* The first running row: the older one, should there be two.
Oldest(p) == {i \in Running(p) : \A k \in Running(p) : i <= k}
TermJob ==
  IF LastState(Job) = "running" /\ \A s \in Subs : Running(s) = {}
  THEN {Ends(Job, i, "failed") : i \in Oldest(Job)} ELSE {}

InitStep(s) ==
  IF Running(Job) # {} /\ Running(s) = {} THEN {Starts(s)} ELSE {}

EndStep(s, state) ==
  IF Running(Job) # {} THEN {Ends(s, i, state) : i \in Oldest(s)} ELSE {}

CallsFor(p) ==
  IF p = Job THEN InitJob \union HaltJob \union TermJob
  ELSE InitStep(p) \union EndStep(p, "success") \union EndStep(p, "failed")

-----------------------------------------------------------------------------
Read(c) ==
  /\ call[c] = Idle
  /\ \E p \in Serves[c] : \E w \in CallsFor(p) :
       /\ w.row = New => Len(execs[p]) < MaxRuns
       /\ call' = [call EXCEPT ![c] = w]
  /\ UNCHANGED execs

Commit(c) ==
  /\ call[c] # Idle
  /\ LET w == call[c] IN
     execs' = IF w.row = New THEN [execs EXCEPT ![w.proc] = Append(@, w.state)]
              ELSE [execs EXCEPT ![w.proc][w.row] = w.state]
  /\ call' = [call EXCEPT ![c] = Idle]

\* The client dies or the database refuses: the transaction is rolled back.
Rollback(c) ==
  /\ call[c] # Idle
  /\ call' = [call EXCEPT ![c] = Idle]
  /\ UNCHANGED execs

Init ==
  /\ execs = [p \in Processes |-> <<>>]
  /\ call = [c \in Clients |-> Idle]

Next == \E c \in Clients : Read(c) \/ Commit(c) \/ Rollback(c)

Spec == Init /\ [][Next]_vars

-----------------------------------------------------------------------------
(***************************************************************************)
(* What the documentation promises of the calls, and what is left of it    *)
(* when their transactions overlap.                                        *)
(***************************************************************************)

\* "This ensures that there are no multiple running instances of a particular
\* job at any point of time": the check and the insert are two steps, and two
\* clients that start one process may both have checked before either inserts.
OneInstance == \A p \in Processes : Cardinality(Running(p)) <= 1

\* "This ensures that no step can run unless the main job which comprises those
\* steps is already running": the end of a job and the start of a step may each
\* miss the other, even if each process has one client.
StepsUnderJob == \A s \in Subs : Running(s) # {} => Running(Job) # {}

\* A call that starts p was decided when no execution of p was running, so each
\* client adds at most one: there are never more than clients that serve p, and
\* a process with one client keeps to one execution whatever the others do.
Servers(p) == {c \in Clients : p \in Serves[c]}
OneEach == \A p \in Processes : Cardinality(Running(p)) <= Cardinality(Servers(p))

=============================================================================
