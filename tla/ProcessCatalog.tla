--------------------------- MODULE ProcessCatalog ---------------------------
(***************************************************************************)
(* The steps of one workflow in the PROCESS table, and the REST service    *)
(* that changes them for the workflow designer: ProcessAPI.get, update,    *)
(* delete, insertClone, and SubProcessAPI.insert.  The service works in    *)
(* transactions of one DAO call each: a request that writes several rows   *)
(* is several steps here, between which other requests run and after any   *)
(* of which it may fail.                                                   *)
(*                                                                         *)
(* NEXT_PROCESS_ID is a comma list of ids.  It is the sequence of what     *)
(* split(",") finds in it; Blank is the empty string, alone or beside      *)
(* others.  A step's id is its place in "rows"; ids are only compared.     *)
(***************************************************************************)
EXTENDS Integers, Sequences, FiniteSets

CONSTANTS
  Users,       \* the browsers with the workflow open
  Kinds,       \* process types a step is made of
  MaxSteps,    \* bound: steps ever made
  MaxFailures  \* bound: requests that fail or whose answer is lost

ASSUME CatalogAssumption ==
  /\ Users # {}
  /\ "source" \in Kinds
  /\ MaxSteps \in Nat /\ MaxFailures \in Nat

NoProcess == 0
Parent == -1     \* the workflow's own id, which a last step leads to
Blank == -2
Steps == 1 .. MaxSteps
Lists == Seq(Steps \union {NoProcess, Parent, Blank})

VARIABLES
  rows,      \* the steps, oldest first: type, next ids, DELETE_FLAG
  starts,    \* the next ids of the workflow's own row: the steps it starts with
  req,       \* the request of each browser, and how far the service is with it
  failures   \* how many requests have failed

catalogVars == <<rows, starts, req, failures>>

Row == [kind : Kinds, next : Lists, deleted : BOOLEAN]
Idle == [op |-> "none"]
Requests ==
       {Idle}
  \union [op : {"get"}, id : Steps]
  \union [op : {"update"}, id : Steps, next : Lists]
  \union [op : {"insert"}, kind : Kinds, read : Lists]
  \union [op : {"adopt"}, id : Steps, read : Lists]
  \union [op : {"clone"}, id : Steps]
  \union [op : {"delete"}, id : Steps,
          todo : SUBSET [at : Steps \union {Parent}, next : Lists]]
  \union [op : {"reply"}, ok : BOOLEAN, id : Steps \union {NoProcess}, next : Lists]

CatalogTypeOK ==
  /\ rows \in Seq(Row) /\ Len(rows) <= MaxSteps
  /\ starts \in Lists
  /\ req \in [Users -> Requests]
  /\ failures \in 0 .. MaxFailures

-----------------------------------------------------------------------------
Ids(list) == {list[i] : i \in DOMAIN list}
Live == {s \in DOMAIN rows : ~rows[s].deleted}
NextOf(p) == IF p = Parent THEN starts ELSE rows[p].next

\* The pattern of the bean's nextProcessIds: numbers between commas.
Valid(list) == Blank \notin Ids(list)

Ask(u, request) == req' = [req EXCEPT ![u] = request]
Answer(u, ok, id, next) ==
  Ask(u, [op |-> "reply", ok |-> ok, id |-> id, next |-> next])
Write(p, next) ==
  IF p = Parent THEN starts' = next /\ UNCHANGED rows
                ELSE rows' = [rows EXCEPT ![p].next = next] /\ UNCHANGED starts

\* ProcessAPI.get: the row, deleted or not.
Get(u) ==
  /\ req[u].op = "get"
  /\ Answer(u, TRUE, req[u].id, rows[req[u].id].next)
  /\ UNCHANGED <<rows, starts, failures>>

\* ProcessAPI.update: a list the bean does not accept is refused; otherwise the
\* whole row is written, and a record without a delete flag clears it.
Update(u) ==
  /\ req[u].op = "update"
  /\ IF Valid(req[u].next)
     THEN /\ rows' = [rows EXCEPT ![req[u].id].next = req[u].next,
                                  ![req[u].id].deleted = FALSE]
          /\ Answer(u, TRUE, req[u].id, req[u].next)
     ELSE /\ Answer(u, FALSE, NoProcess, <<>>)
          /\ UNCHANGED rows
  /\ UNCHANGED <<starts, failures>>

\* SubProcessAPI.insert: the child, and for a source, later, the parent's list,
\* from the parent's row that was read before.
InsertChild_ParentFirst(u) ==   \* mutant: the parent is told before the child is there
  /\ req[u].op = "insert" /\ req[u].kind = "source"
  /\ Len(rows) < MaxSteps
  /\ starts' = Append(req[u].read, Len(rows) + 1)
  /\ Ask(u, [req[u] EXCEPT !.kind = "operator"])
  /\ UNCHANGED <<rows, failures>>
InsertChild(u) ==
  /\ req[u].op = "insert"
  /\ Len(rows) < MaxSteps
  /\ rows' = Append(rows, [kind |-> req[u].kind, next |-> <<Parent>>, deleted |-> FALSE])
  /\ IF req[u].kind = "source"
     THEN Ask(u, [op |-> "adopt", id |-> Len(rows) + 1, read |-> req[u].read])
     ELSE Answer(u, TRUE, Len(rows) + 1, <<Parent>>)
  /\ UNCHANGED <<starts, failures>>

Adopt(u) ==
  /\ req[u].op = "adopt"
  /\ starts' = IF req[u].read = <<NoProcess>> THEN <<req[u].id>>
               ELSE Append(req[u].read, req[u].id)
  /\ Answer(u, TRUE, req[u].id, <<Parent>>)
  /\ UNCHANGED <<rows, failures>>

\* ProcessDAO.cloneProcess: a copy of a live step, which leads nowhere; the
\* parent does not hear of it.
Clone(u) ==
  /\ req[u].op = "clone"
  /\ IF req[u].id \in Live
     THEN /\ Len(rows) < MaxSteps
          /\ rows' = Append(rows, [kind |-> rows[req[u].id].kind,
                                   next |-> <<NoProcess>>, deleted |-> FALSE])
          /\ Answer(u, TRUE, Len(rows) + 1, <<NoProcess>>)
     ELSE Answer(u, FALSE, NoProcess, <<>>) /\ UNCHANGED rows
  /\ UNCHANGED <<starts, failures>>

\* ProcessAPI.delete.  Every list that names the step is read first, the lists
\* are then rewritten one by one, and the row is flagged at the end.  A list
\* goes through a hash set: repeated ids go, the order is the set's (the empty
\* string has hash 0 and is first), and of nothing the empty string is left.
Neighbours_Steps(id) ==   \* mutant: the parent's list is forgotten
  {[at |-> p, next |-> NextOf(p)] : p \in {q \in Live : id \in Ids(rows[q].next)}}
Neighbours(id) ==
  {[at |-> p, next |-> NextOf(p)] :
     p \in {q \in Live \union {Parent} : id \in Ids(NextOf(q))}}
Joined(ids) ==
  IF ids = {} THEN {<<Blank>>}
  ELSE {list \in [1 .. Cardinality(ids) -> ids] :
          Ids(list) = ids /\ (Blank \in ids => list[1] = Blank)}

Rewire(u) ==
  /\ req[u].op = "delete"
  /\ \E n \in req[u].todo :
       /\ \E list \in Joined(Ids(n.next) \ {req[u].id}) : Write(n.at, list)
       /\ Ask(u, [req[u] EXCEPT !.todo = @ \ {n}])
  /\ UNCHANGED failures

Flag_Early(u) ==   \* mutant: the row is flagged before the lists are rewritten
  /\ req[u].op = "delete"
  /\ rows' = [rows EXCEPT ![req[u].id].deleted = TRUE]
  /\ IF req[u].todo = {} THEN Answer(u, TRUE, req[u].id, <<>>) ELSE UNCHANGED req
  /\ UNCHANGED <<starts, failures>>
Flag(u) ==
  /\ req[u].op = "delete"
  /\ req[u].todo = {}
  /\ rows' = [rows EXCEPT ![req[u].id].deleted = TRUE]
  /\ Answer(u, TRUE, req[u].id, <<>>)
  /\ UNCHANGED <<starts, failures>>

\* A request fails, at any of its transactions, or its answer is lost.
Fail(u) ==
  /\ req[u].op # "none"
  /\ req[u].op = "reply" => req[u].ok
  /\ failures < MaxFailures
  /\ failures' = failures + 1
  /\ Answer(u, FALSE, NoProcess, <<>>)
  /\ UNCHANGED <<rows, starts>>

CatalogInit ==
  /\ rows = <<>>
  /\ starts = <<NoProcess>>   \* createFirstProcess
  /\ req = [u \in Users |-> Idle]
  /\ failures = 0

Serve(u) == \/ Get(u) \/ Update(u) \/ InsertChild(u) \/ Adopt(u) \/ Clone(u)
            \/ Rewire(u) \/ Flag(u)

=============================================================================
