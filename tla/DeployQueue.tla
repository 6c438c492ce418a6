---------------------------- MODULE DeployQueue -----------------------------
(***************************************************************************)
(* The queue of processes waiting for deployment, and the programs that    *)
(* empty it.  The REST service inserts and deletes rows                    *)
(* (ProcessDeploymentQueueDAO); a deployer, started again and again by the *)
(* scheduler of the host, fetches some rows (FetchDeployDAO) and for each  *)
(* one calls initDeploy, runs the deployment script and calls haltDeploy   *)
(* or termDeploy (DeployDAO).  The three calls of DeployDAO log their      *)
(* errors and return, so a deployer goes on whether they did anything or   *)
(* not.  The deployer program itself is outside the repository.            *)
(*                                                                         *)
(* A call is a transaction that reads rows without locking them, decides,  *)
(* and later writes whole rows back: it is a step that reads and a step    *)
(* that commits, and anything may happen in between.  A row that was       *)
(* deleted meanwhile cannot be updated, which fails the whole transaction. *)
(***************************************************************************)
EXTENDS Integers, Sequences, FiniteSets

CONSTANTS
  Processes,   \* the processes users deploy
  Users,       \* users that may insert at the same time
  Deployers,   \* deployer programs that may run side by side
  FetchNum,    \* the number of rows one of them asks for
  MaxRows,     \* bound: rows inserted
  MaxCrashes   \* bound: deployers that die

ASSUME DeployAssumption ==
  FetchNum \in Nat \ {0} /\ MaxRows \in Nat /\ MaxCrashes \in Nat

VARIABLES
  queue,    \* PROCESS_DEPLOYMENT_QUEUE, by DEPLOYMENT_ID: process and status
  asks,     \* for each user, the processes it is inserting a row for: one or none
  todo,     \* for each deployer, the ids it fetched and has not come to yet
  current,  \* for each deployer, the id whose script it is about, or 0
  call,     \* for each deployer, what its call in flight is going to write
  crashes   \* deployers that died so far

vars == <<queue, asks, todo, current, call, crashes>>

Status == {"notstarted", "running", "success", "fail", "picked", "deleted"}
Ended == {"success", "fail"}
Entry == [proc : Processes, status : Status]
Nothing == 0

\* A call writes one status into some rows: "picked" for fetchDeploy, "running"
\* for initDeploy, a result for haltDeploy and termDeploy.
Written == {"picked", "running"} \union Ended
Writes(ids, status) == [ids |-> ids, status |-> status]
Idle == Writes({}, "none")

TypeOK ==
  /\ queue \in Seq(Entry)
  /\ asks \in [Users -> SUBSET Processes]
  /\ todo \in [Deployers -> Seq(DOMAIN queue)]
  /\ current \in [Deployers -> DOMAIN queue \union {Nothing}]
  /\ call \in [Deployers -> [ids : SUBSET DOMAIN queue, status : Written] \union {Idle}]
  /\ crashes \in Nat

-----------------------------------------------------------------------------
With(status) == {id \in DOMAIN queue : queue[id].status = status}

\* The first n ids of a set, as a query with a limit returns them.
FirstOf_Newest(ids, n) ==   \* mutant: order descending
  {id \in ids : Cardinality({k \in ids : k > id}) < n}
FirstOf(ids, n) == {id \in ids : Cardinality({k \in ids : k < id}) < n}
InOrder(ids) ==
  CHOOSE s \in [1 .. Cardinality(ids) -> ids] : \A i, k \in DOMAIN s : i < k => s[i] < s[k]

-----------------------------------------------------------------------------
(***************************************************************************)
(* REST calls.  The insertion looks for a row of the process before it     *)
(* saves one.  Ids are given in the order of the commits: insertProcess-   *)
(* DeploymentQueue does nothing between the save and the commit.           *)
(***************************************************************************)
InQueue(p) ==
  \E id \in With("notstarted") \union With("running") : queue[id].proc = p

AskInsert(u, p) ==
  /\ asks[u] = {} /\ ~InQueue(p)
  /\ Len(queue) + Cardinality({v \in Users : asks[v] # {}}) < MaxRows
  /\ asks' = [asks EXCEPT ![u] = {p}]
  /\ UNCHANGED <<queue, todo, current, call, crashes>>

CommitInsert(u) ==
  /\ \E p \in asks[u] : queue' = Append(queue, [proc |-> p, status |-> "notstarted"])
  /\ asks' = [asks EXCEPT ![u] = {}]
  /\ UNCHANGED <<todo, current, call, crashes>>

Delete(id) ==
  /\ queue[id].status # "deleted"
  /\ queue' = [queue EXCEPT ![id].status = "deleted"]
  /\ UNCHANGED <<asks, todo, current, call, crashes>>

-----------------------------------------------------------------------------
(***************************************************************************)
(* A deployer: what its calls read and decide.                             *)
(***************************************************************************)

\* Goes to mark the first FetchNum waiting rows as picked, and returns the first
\* FetchNum rows that are picked then, whoever picked them.  The deployer comes
\* to them when the call has committed.
Handed_OwnOnly(taken) == taken   \* mutant: only the rows just marked
Handed(taken) == FirstOf(taken \union With("picked"), FetchNum)
Fetch(d) ==
  LET taken == FirstOf(With("notstarted"), FetchNum)
  IN  /\ call[d] = Idle /\ todo[d] = <<>> /\ current[d] = Nothing
      /\ taken \union With("picked") # {}
      /\ todo' = [todo EXCEPT ![d] = InOrder(Handed(taken))]
      /\ call' = [call EXCEPT ![d] = IF taken = {} THEN Idle ELSE Writes(taken, "picked")]
      /\ UNCHANGED <<queue, asks, current, crashes>>

\* initDeploy, after which the script is started.  The call goes to change only
\* a row that it finds picked.
StartWrites_Forced(id) == Writes({id}, "running")   \* mutant: in any status
StartWrites(id) == IF queue[id].status = "picked" THEN Writes({id}, "running") ELSE Idle
InitDeploy(d) ==
  /\ call[d] = Idle /\ todo[d] # <<>> /\ current[d] = Nothing
  /\ current' = [current EXCEPT ![d] = Head(todo[d])]
  /\ todo' = [todo EXCEPT ![d] = Tail(@)]
  /\ call' = [call EXCEPT ![d] = StartWrites(Head(todo[d]))]
  /\ UNCHANGED <<queue, asks, crashes>>

\* The script has ended, well (haltDeploy) or not (termDeploy).  The call goes to
\* change only a row that it finds running.
EndWrites_Lost(id, status) ==   \* mutant: termDeploy leaves the row as it is
  IF status = "success" THEN Writes({id}, status) ELSE Idle
EndWrites(id, status) ==
  IF queue[id].status = "running" THEN Writes({id}, status) ELSE Idle
EndDeploy(d, status) ==
  /\ call[d] = Idle /\ current[d] # Nothing
  /\ LET w == EndWrites(current[d], status) IN
       /\ call' = [call EXCEPT ![d] = w]
       /\ current' = IF w = Idle THEN [current EXCEPT ![d] = Nothing] ELSE current
  /\ UNCHANGED <<queue, asks, todo, crashes>>

-----------------------------------------------------------------------------
(***************************************************************************)
(* A deployer: how its calls end.                                          *)
(***************************************************************************)
Gone(d) == \E id \in call[d].ids : queue[id].status = "deleted"

\* The rows get the status whatever has become of them since they were read.
Commit(d) ==
  LET w == call[d]
  IN  /\ w # Idle /\ ~Gone(d)
      /\ queue' = [id \in DOMAIN queue |->
                     IF id \in w.ids THEN [queue[id] EXCEPT !.status = w.status] ELSE queue[id]]
      /\ current' = IF w.status \in Ended THEN [current EXCEPT ![d] = Nothing] ELSE current
      /\ call' = [call EXCEPT ![d] = Idle]
      /\ UNCHANGED <<asks, todo, crashes>>

\* A row to be updated is gone.  The deployer gets an exception instead of an
\* answer: it goes on with its next row or stops.
Fail(d) ==
  /\ Gone(d)
  /\ \E rest \in {todo[d], <<>>} :
       /\ call[d].status = "picked" => rest = <<>>
       /\ todo' = [todo EXCEPT ![d] = rest]
  /\ current' = [current EXCEPT ![d] = Nothing]
  /\ call' = [call EXCEPT ![d] = Idle]
  /\ UNCHANGED <<queue, asks, crashes>>

\* The deployer dies: the database rolls back the call in flight.
Crash(d) ==
  /\ crashes < MaxCrashes
  /\ todo[d] # <<>> \/ current[d] # Nothing
  /\ todo' = [todo EXCEPT ![d] = <<>>]
  /\ current' = [current EXCEPT ![d] = Nothing]
  /\ call' = [call EXCEPT ![d] = Idle]
  /\ crashes' = crashes + 1
  /\ UNCHANGED <<queue, asks>>

-----------------------------------------------------------------------------
Init ==
  /\ queue = <<>>
  /\ asks = [u \in Users |-> {}]
  /\ todo = [d \in Deployers |-> <<>>]
  /\ current = [d \in Deployers |-> Nothing]
  /\ call = [d \in Deployers |-> Idle]
  /\ crashes = 0

Deployer(d) ==
  \/ Fetch(d) \/ InitDeploy(d) \/ Commit(d) \/ Fail(d)
  \/ \E status \in Ended : EndDeploy(d, status)

Next ==
  \/ \E u \in Users : CommitInsert(u) \/ \E p \in Processes : AskInsert(u, p)
  \/ \E id \in DOMAIN queue : Delete(id)
  \/ \E d \in Deployers : Deployer(d) \/ Crash(d)

\* The scheduler keeps starting deployers, calls return and scripts end.
Fairness == \A d \in Deployers : WF_vars(Deployer(d))
Spec == Init /\ [][Next]_vars /\ Fairness

-----------------------------------------------------------------------------
(***************************************************************************)
(* Properties.                                                             *)
(***************************************************************************)

\* No row overtakes an older one: what is picked is the oldest.
NoOvertaking ==
  \A i, k \in DOMAIN queue : i < k /\ queue[i].status = "notstarted"
    => queue[k].status \in {"notstarted", "deleted"}

\* A row shown as running is at the script of some deployer, or its deployer died.
RunningHasDeployer ==
  \/ crashes > 0
  \/ \A id \in With("running") : \E d \in Deployers : current[d] = id

\* A deployment that has ended and that no call in flight is about stays as it
\* ended until it is deleted: only calls that read the row before it ended may
\* write over the result, although two deployers may be at work on it.
Settled(id) ==
  id \in DOMAIN queue /\ queue[id].status \in Ended /\ \A d \in Deployers : id \notin call[d].ids
ResultSettled ==
  [][\A id \in DOMAIN queue : Settled(id)
       => \/ queue'[id].status = "deleted"
          \/ queue'[id] = queue[id] /\ Settled(id)']_vars

\* Every row gets a result in the end and keeps it, however often late calls of
\* several deployers set it back, and the rows a dead deployer had picked are
\* taken up by another; but the row whose script a deployer died in may stay
\* running.
Over(id) ==
  queue[id].status \in Ended \union {"deleted"} \/ (crashes > 0 /\ queue[id].status = "running")
Deployed == \A id \in 1 .. MaxRows : id \in DOMAIN queue ~> [](id \in DOMAIN queue /\ Over(id))

=============================================================================
