------------------------------ MODULE JobLedger ------------------------------
(***************************************************************************)
(* What the job control promises to the people who run jobs, without its   *)
(* tables: every step of a job has a queue of numbered items.  A run of    *)
(* the job takes items from the front of the queues of its steps; what it  *)
(* took stays with the job, however often runs fail, until a run that      *)
(* succeeds puts it away.  Only then is more taken, and only a run that    *)
(* succeeds hands an item on to the steps its job feeds.                   *)
(*                                                                         *)
(* Module JobControl implements this specification.                        *)
(***************************************************************************)
EXTENDS Integers

CONSTANTS
  Jobs,       \* the jobs
  Subs,       \* their steps
  ParentOf,   \* the job of each step
  Feeder      \* the job that feeds a step, or something that is no job

VARIABLES
  running,    \* the jobs with a run in progress
  last,       \* for each step, the number of its newest item
  waiting,    \* for each step, the items nobody has taken
  taken,      \* for each step, the items its job works on
  done        \* for each step, the items that were put away

vars == <<running, last, waiting, taken, done>>

StepsOf(j) == {s \in Subs : ParentOf[s] = j}
FedBy(j) == {s \in Subs : Feeder[s] = j}

\* The queues after a new item for every step of S.
Arrived(S) == [s \in Subs |-> IF s \in S THEN waiting[s] \union {last[s] + 1} ELSE waiting[s]]
Counted(S) == [s \in Subs |-> IF s \in S THEN last[s] + 1 ELSE last[s]]

\* A front of a queue: nothing in it is younger than what is left behind.
Front(part, queue) ==
  /\ part \subseteq queue
  /\ queue # {} => part # {}
  /\ \A i \in part : \A k \in queue \ part : i < k

Init ==
  /\ running = {}
  /\ last = [s \in Subs |-> 0]
  /\ waiting = [s \in Subs |-> {}]
  /\ taken = [s \in Subs |-> {}]
  /\ done = [s \in Subs |-> {}]

\* A run of a job that holds nothing takes the front of each queue.  A job that
\* is fed by nobody may give each of its steps an item of its own first.
Begin(j) ==
  /\ j \notin running
  /\ running' = running \union {j}
  /\ \A s \in StepsOf(j) : taken[s] = {}
  /\ \E S \in {{}, StepsOf(j)} :
       LET queue == Arrived(S)
       IN  /\ \A s \in S : Feeder[s] \notin Jobs
           /\ last' = Counted(S)
           /\ \E part \in [StepsOf(j) -> SUBSET UNION {queue[s] : s \in StepsOf(j)}] :
                /\ \A s \in StepsOf(j) : Front(part[s], queue[s])
                /\ taken' = [s \in Subs |-> IF s \in StepsOf(j) THEN part[s] ELSE taken[s]]
                /\ waiting' = [s \in Subs |-> IF s \in StepsOf(j) THEN queue[s] \ part[s]
                                                                   ELSE queue[s]]
  /\ UNCHANGED done

\* A run of a job that holds items works on these.
BeginAgain(j) ==
  /\ j \notin running
  /\ running' = running \union {j}
  /\ \E s \in StepsOf(j) : taken[s] # {}
  /\ UNCHANGED <<last, waiting, taken, done>>

\* A run succeeds: items its job holds are put away, and every step it feeds
\* gets one.
Succeed(j) ==
  /\ j \in running
  /\ running' = running \ {j}
  /\ \E put \in [StepsOf(j) -> SUBSET UNION {taken[s] : s \in StepsOf(j)}] :
       /\ \A s \in StepsOf(j) : put[s] \subseteq taken[s]
       /\ taken' = [s \in Subs |-> IF s \in StepsOf(j) THEN taken[s] \ put[s] ELSE taken[s]]
       /\ done' = [s \in Subs |-> IF s \in StepsOf(j) THEN done[s] \union put[s] ELSE done[s]]
  /\ waiting' = Arrived(FedBy(j))
  /\ last' = Counted(FedBy(j))

Fail(j) ==
  /\ j \in running
  /\ running' = running \ {j}
  /\ UNCHANGED <<last, waiting, taken, done>>

\* An item comes from outside, for the steps a job feeds.
File(j) ==
  /\ waiting' = Arrived(FedBy(j))
  /\ last' = Counted(FedBy(j))
  /\ UNCHANGED <<running, taken, done>>

Next == \E j \in Jobs : Begin(j) \/ BeginAgain(j) \/ Succeed(j) \/ Fail(j) \/ File(j)
Spec == Init /\ [][Next]_vars
=============================================================================
