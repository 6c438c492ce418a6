------------------------- MODULE DeployQueueProofs --------------------------
(***************************************************************************)
(* The order and the results of the deployment queue, for any processes,   *)
(* any number of users, deployers and rows fetched at a time, and calls    *)
(* that overlap in any way.                                                *)
(***************************************************************************)
EXTENDS DeployQueue, FiniteSetTheorems, SequenceTheorems, TLAPS

\* Of a finite set of ids, the first n include no id without those before it.
LEMMA FirstOfIsFront ==
  ASSUME NEW ids \in SUBSET Nat, IsFiniteSet(ids), NEW n \in Nat,
         NEW k \in FirstOf(ids, n), NEW i \in ids, i < k
  PROVE  i \in FirstOf(ids, n)
<1> DEFINE Before(x) == {y \in ids : y < x}
<1>1. Before(i) \in SUBSET Before(k)
  <2>1. i \in Nat /\ k \in Nat /\ ids \subseteq Nat
    BY DEF FirstOf
  <2>2. \A y \in Nat : y < i => y < k
    BY <2>1
  <2>3. ASSUME NEW y \in Before(i) PROVE y \in Before(k)
    BY <2>1, <2>2, <2>3
  <2> QED
    BY <2>3
<1>2. IsFiniteSet(Before(k)) /\ IsFiniteSet(Before(i))
  BY FS_Subset, Before(k) \in SUBSET ids, Before(i) \in SUBSET ids
<1>3. Cardinality(Before(i)) <= Cardinality(Before(k))
  BY <1>1, <1>2, FS_Subset
<1>4. Cardinality(Before(k)) < n
  BY DEF FirstOf
<1>5. Cardinality(Before(i)) \in Nat /\ Cardinality(Before(k)) \in Nat
  BY <1>2, FS_CardinalityType
<1>6. Cardinality(Before(i)) < n
  BY <1>3, <1>4, <1>5
<1> QED
  BY <1>6 DEF FirstOf

\* The ids a query returns are a finite set of numbers: there is a list of them in
\* increasing order, the one FetchDeployDAO returns.
LEMMA ListOfIds ==
  ASSUME NEW ids \in SUBSET Nat, IsFiniteSet(ids)
  PROVE  /\ InOrder(ids) \in [1 .. Cardinality(ids) -> ids]
         /\ \A i, k \in DOMAIN InOrder(ids) : i < k => InOrder(ids)[i] < InOrder(ids)[k]
<1> DEFINE n == Cardinality(ids)
           before(x) == {y \in ids : y < x}
           rank == [x \in ids |-> Cardinality(before(x)) + 1]
<1>1. n \in Nat /\ \A x \in ids : IsFiniteSet(before(x)) /\ Cardinality(before(x)) \in Nat
  BY FS_Subset, FS_CardinalityType
<1>2. ASSUME NEW x \in ids PROVE Cardinality(before(x)) < n
  <2>1. before(x) \in SUBSET ids /\ x \notin before(x)
    OBVIOUS
  <2>2. Cardinality(before(x)) <= n /\ Cardinality(before(x)) # n
    BY <2>1, FS_Subset
  <2> QED
    BY <1>1, <2>2
<1>3. ASSUME NEW x \in ids, NEW y \in ids, x < y PROVE rank[x] < rank[y]
  <2>1. before(x) \in SUBSET before(y) /\ x \in before(y) /\ x \notin before(x)
    <3>1. x \in Nat /\ y \in Nat /\ ids \subseteq Nat
      OBVIOUS
    <3>2. ASSUME NEW z \in before(x) PROVE z \in before(y)
      BY <1>3, <3>1, <3>2
    <3>3. x \in before(y) /\ x \notin before(x)
      BY <1>3, <3>1
    <3> HIDE DEF before
    <3> QED
      BY <3>2, <3>3
  <2>2. /\ Cardinality(before(x)) <= Cardinality(before(y))
        /\ Cardinality(before(x)) # Cardinality(before(y))
    BY <1>1, <2>1, FS_Subset
  <2> QED
    BY <1>1, <2>2
<1>4. \A x \in ids : rank[x] \in 1 .. n
  BY <1>1, <1>2
<1>5. ASSUME NEW k \in 1 .. n PROVE \E x \in ids : rank[x] = k
  <2>1. SUFFICES ASSUME \A x \in ids : rank[x] # k PROVE FALSE
    OBVIOUS
  <2>2. rank \in [ids -> (1 .. n) \ {k}]
    BY <1>4, <2>1
  <2>3. IsFiniteSet((1 .. n) \ {k}) /\ Cardinality((1 .. n) \ {k}) < n
    <3>1. IsFiniteSet(1 .. n) /\ Cardinality(1 .. n) = n
      BY <1>1, FS_Interval
    <3> DEFINE all == 1 .. n
    <3> HIDE DEF n
    <3>2. IsFiniteSet(all) /\ Cardinality(all) = n /\ k \in all
      BY <3>1
    <3> HIDE DEF all
    <3>3. IsFiniteSet(all \ {k}) /\ Cardinality(all \ {k}) = n - 1
      BY <3>2, FS_RemoveElement
    <3> QED
      BY <1>1, <3>3 DEF all
  <2> HIDE DEF rank
  <2>4. PICK x, y \in ids : x # y /\ rank[x] = rank[y]
    BY <1>1, <2>2, <2>3, FS_PigeonHole
  <2>5. x < y \/ y < x
    BY <2>4
  <2>6. rank[x] \in Nat /\ rank[y] \in Nat
    BY <1>4
  <2> QED
    BY <1>3, <2>4, <2>5, <2>6
<1> DEFINE s == [k \in 1 .. n |-> CHOOSE x \in ids : rank[x] = k]
<1> HIDE DEF rank
<1>6. \A k \in 1 .. n : s[k] \in ids /\ rank[s[k]] = k
  BY <1>5
<1>7. s \in [1 .. n -> ids] /\ \A i, k \in DOMAIN s : i < k => s[i] < s[k]
  <2>1. ASSUME NEW i \in 1 .. n, NEW k \in 1 .. n, i < k, ~(s[i] < s[k]) PROVE FALSE
    <3>1. s[i] \in Nat /\ s[k] \in Nat /\ rank[s[i]] = i /\ rank[s[k]] = k
      BY <1>6
    <3>2. s[i] = s[k] \/ s[k] < s[i]
      BY <2>1, <3>1
    <3> QED
      BY <1>3, <1>6, <2>1, <3>1, <3>2
  <2> QED
    BY <1>6, <2>1
<1> HIDE DEF s
<1> QED
  BY <1>7 DEF InOrder

LEMMA QueueDomain ==
  ASSUME TypeOK
  PROVE  /\ queue \in Seq(Entry)
         /\ Len(queue) \in Nat /\ DOMAIN queue = 1 .. Len(queue) /\ Nothing \notin DOMAIN queue
         /\ \A id \in DOMAIN queue : queue[id] \in Entry
         /\ \A status : With(status) \in SUBSET Nat /\ IsFiniteSet(With(status))
<1>1. /\ queue \in Seq(Entry) /\ Len(queue) \in Nat /\ DOMAIN queue = 1 .. Len(queue)
      /\ \A id \in DOMAIN queue : queue[id] \in Entry
  BY DEF TypeOK
<1>2. IsFiniteSet(1 .. Len(queue))
  BY <1>1, FS_Interval
<1>3. ASSUME NEW status PROVE With(status) \in SUBSET Nat /\ IsFiniteSet(With(status))
  <2>1. With(status) \in SUBSET (1 .. Len(queue))
    BY <1>1 DEF With
  <2> QED
    BY <2>1, <1>1, <1>2, FS_Subset
<1> QED
  BY <1>1, <1>3 DEF Nothing

\* What a deployer is given to do are rows of the table.
LEMMA HandedList ==
  ASSUME TypeOK
  PROVE  InOrder(Handed(FirstOf(With("notstarted"), FetchNum))) \in Seq(DOMAIN queue)
<1> DEFINE ids == Handed(FirstOf(With("notstarted"), FetchNum))
<1>1. ids \subseteq DOMAIN queue
  BY DEF FirstOf, Handed, With
<1>2. ids \in SUBSET Nat /\ IsFiniteSet(ids)
  <2>1. ids \in SUBSET (1 .. Len(queue))
    BY <1>1, QueueDomain
  <2> HIDE DEF ids
  <2>2. IsFiniteSet(1 .. Len(queue)) /\ 1 .. Len(queue) \subseteq Nat
    BY QueueDomain, FS_Interval
  <2> QED
    BY <2>1, <2>2, FS_Subset
<1> HIDE DEF ids
<1>3. Cardinality(ids) \in Nat
  BY <1>2, FS_CardinalityType
<1>4. InOrder(ids) \in Seq(ids)
  BY <1>2, <1>3, ListOfIds
<1>5. InOrder(ids) \in Seq(DOMAIN queue)
  BY <1>1, <1>4
<1> QED
  BY <1>5 DEF ids

-----------------------------------------------------------------------------
(***************************************************************************)
(* What a step may do to the queue: add a waiting row, or write one status *)
(* into some rows, those of a call that commits or one that is deleted.    *)
(***************************************************************************)
Added(p) == queue' = Append(queue, [proc |-> p, status |-> "notstarted"])
Wrote(ids, status) ==
  /\ DOMAIN queue' = DOMAIN queue
  /\ \A id \in DOMAIN queue \ ids : queue'[id] = queue[id]
  /\ \A id \in DOMAIN queue \intersect ids : queue'[id].status = status

LEMMA AddedRow ==
  ASSUME TypeOK, NEW p \in Processes, Added(p)
  PROVE  /\ queue' \in Seq(Entry)
         /\ Len(queue') = Len(queue) + 1 /\ DOMAIN queue' = 1 .. Len(queue) + 1
         /\ \A id \in DOMAIN queue : queue'[id] = queue[id]
         /\ queue'[Len(queue) + 1].status = "notstarted"
<1>1. [proc |-> p, status |-> "notstarted"] \in Entry
  BY DEF Entry, Status
<1> QED
  BY <1>1, QueueDomain DEF Added

LEMMA CommitWrites ==
  ASSUME TypeOK, NEW d \in Deployers, Commit(d)
  PROVE  /\ queue' \in Seq(Entry) /\ Wrote(call[d].ids, call[d].status)
         /\ call[d].ids \subseteq DOMAIN queue /\ call[d].status \in Written
         /\ \A id \in call[d].ids : queue[id].status # "deleted"
<1> DEFINE ids == call[d].ids
           status == call[d].status
<1>1. ids \subseteq DOMAIN queue /\ status \in Written
  BY DEF Commit, TypeOK
<1>2. queue' = [id \in DOMAIN queue |->
                  IF id \in ids THEN [queue[id] EXCEPT !.status = status] ELSE queue[id]]
  BY DEF Commit
<1>3. \A id \in ids : queue[id].status # "deleted"
  BY DEF Commit, Gone
<1> HIDE DEF ids, status
<1>4. status \in Status
  BY <1>1 DEF Written, Ended, Status
<1>5. \A id \in DOMAIN queue : queue'[id] \in Entry
  BY <1>2, <1>4, QueueDomain DEF Entry
<1>6. DOMAIN queue' = 1 .. Len(queue) /\ queue' = [id \in 1 .. Len(queue) |-> queue'[id]]
  BY <1>2, QueueDomain
<1>7. queue' \in Seq(Entry)
  BY <1>5, <1>6, QueueDomain
<1>8. Wrote(ids, status)
  BY <1>1, <1>2, QueueDomain DEF Wrote, Entry
<1> QED
  BY <1>1, <1>3, <1>7, <1>8 DEF ids, status

LEMMA DeleteWrites ==
  ASSUME TypeOK, NEW id \in DOMAIN queue, Delete(id)
  PROVE  queue' \in Seq(Entry) /\ Wrote({id}, "deleted")
<1>1. queue' = [queue EXCEPT ![id] = [queue[id] EXCEPT !.status = "deleted"]]
  BY DEF Delete
<1>2. [queue[id] EXCEPT !.status = "deleted"] \in Entry
      /\ [queue[id] EXCEPT !.status = "deleted"].status = "deleted"
  BY QueueDomain DEF Entry, Status
<1> DEFINE row == [queue[id] EXCEPT !.status = "deleted"]
<1> HIDE DEF row
<1>3. queue' = [queue EXCEPT ![id] = row] /\ row \in Entry /\ row.status = "deleted"
  BY <1>1, <1>2 DEF row
<1>4. /\ DOMAIN queue' = DOMAIN queue /\ queue'[id] = row
      /\ \A k \in DOMAIN queue \ {id} : queue'[k] = queue[k]
  BY <1>3, QueueDomain
<1>5. queue' \in Seq(Entry)
  BY <1>3, QueueDomain
<1> QED
  BY <1>3, <1>4, <1>5 DEF Wrote

\* A row that a call in flight is about was waiting, picked or running when the
\* call read it; a call of the deployer about its script is about that row alone.
LEMMA FetchFacts ==
  ASSUME TypeOK, NEW d \in Deployers, Fetch(d)
  PROVE  LET taken == FirstOf(With("notstarted"), FetchNum)
         IN  /\ taken \subseteq With("notstarted") /\ taken \subseteq DOMAIN queue
             /\ call' = [call EXCEPT ![d] = IF taken = {} THEN Idle ELSE Writes(taken, "picked")]
             /\ UNCHANGED <<queue, asks, current, crashes>>
             /\ current[d] = Nothing /\ call[d] = Idle
             /\ \E list \in Seq(DOMAIN queue) : todo' = [todo EXCEPT ![d] = list]
  BY HandedList DEF Fetch, FirstOf, With

LEMMA InitFacts ==
  ASSUME TypeOK, NEW d \in Deployers, InitDeploy(d)
  PROVE  \E id \in DOMAIN queue, list \in Seq(DOMAIN queue) :
           /\ todo' = [todo EXCEPT ![d] = list]
           /\ current' = [current EXCEPT ![d] = id]
           /\ call' = [call EXCEPT ![d] = StartWrites(id)]
           /\ UNCHANGED <<queue, asks, crashes>>
           /\ current[d] = Nothing /\ call[d] = Idle
<1>1. todo[d] \in Seq(DOMAIN queue) /\ todo[d] # <<>>
  BY DEF InitDeploy, TypeOK
<1>2. Head(todo[d]) \in DOMAIN queue /\ Tail(todo[d]) \in Seq(DOMAIN queue)
  BY <1>1, HeadTailProperties
<1>3. todo' = [todo EXCEPT ![d] = Tail(todo[d])]
  BY DEF InitDeploy
<1> QED
  BY <1>2, <1>3 DEF InitDeploy

-----------------------------------------------------------------------------
LEMMA TypeStep == TypeOK /\ [Next]_vars => TypeOK'
<1> SUFFICES ASSUME TypeOK, [Next]_vars PROVE TypeOK'
  OBVIOUS
<1> DEFINE Rows == DOMAIN queue
           Calls == [ids : SUBSET Rows, status : Written] \union {Idle}
<1>1. CASE \E u \in Users : CommitInsert(u)
  <2>1. PICK u \in Users : CommitInsert(u)
    BY <1>1
  <2>2. PICK p \in Processes : Added(p)
    BY <2>1 DEF CommitInsert, TypeOK, Added
  <2>3. queue' \in Seq(Entry) /\ Rows \subseteq DOMAIN queue'
    BY <2>2, AddedRow, QueueDomain
  <2>4. /\ asks' \in [Users -> SUBSET Processes]
        /\ UNCHANGED <<todo, current, call, crashes>>
    BY <2>1 DEF CommitInsert, TypeOK
  <2>5. todo' \in [Deployers -> Seq(DOMAIN queue')]
    <3>1. Seq(Rows) \subseteq Seq(DOMAIN queue')
      BY <2>3
    <3> QED
      BY <2>4, <3>1 DEF TypeOK
  <2>6. call' \in [Deployers -> [ids : SUBSET DOMAIN queue', status : Written] \union {Idle}]
    BY <2>3, <2>4 DEF TypeOK
  <2> QED
    BY <2>3, <2>4, <2>5, <2>6 DEF TypeOK
<1>2. ASSUME NEW u \in Users, NEW p \in Processes, AskInsert(u, p) PROVE TypeOK'
  BY <1>2 DEF AskInsert, TypeOK
<1>3. ASSUME NEW id \in DOMAIN queue, Delete(id) PROVE TypeOK'
  <2>1. queue' \in Seq(Entry) /\ DOMAIN queue' = DOMAIN queue
    BY <1>3, DeleteWrites DEF Wrote
  <2> QED
    BY <1>3, <2>1 DEF Delete, TypeOK
<1>4. ASSUME NEW d \in Deployers, Fetch(d) PROVE TypeOK'
  <2> DEFINE taken == FirstOf(With("notstarted"), FetchNum)
             new == IF taken = {} THEN Idle ELSE Writes(taken, "picked")
  <2>1. taken \subseteq Rows /\ call' = [call EXCEPT ![d] = new]
        /\ UNCHANGED <<queue, asks, current, crashes>>
    BY <1>4, FetchFacts
  <2>2. PICK list \in Seq(Rows) : todo' = [todo EXCEPT ![d] = list]
    BY <1>4, FetchFacts
  <2> HIDE DEF taken
  <2>3. new \in Calls
    BY <2>1 DEF Writes, Written
  <2> QED
    BY <2>1, <2>2, <2>3 DEF TypeOK
<1>5. ASSUME NEW d \in Deployers, InitDeploy(d) PROVE TypeOK'
  <2>1. PICK id \in Rows, list \in Seq(Rows) :
          /\ todo' = [todo EXCEPT ![d] = list]
          /\ current' = [current EXCEPT ![d] = id]
          /\ call' = [call EXCEPT ![d] = StartWrites(id)]
          /\ UNCHANGED <<queue, asks, crashes>>
    BY <1>5, InitFacts
  <2>2. StartWrites(id) \in Calls
    BY DEF StartWrites, Writes, Written
  <2> QED
    BY <2>1, <2>2 DEF TypeOK
<1>6. ASSUME NEW d \in Deployers, NEW status \in Ended, EndDeploy(d, status) PROVE TypeOK'
  <2>1. /\ call' = [call EXCEPT ![d] = EndWrites(current[d], status)]
        /\ current' \in {current, [current EXCEPT ![d] = Nothing]}
        /\ UNCHANGED <<queue, asks, todo, crashes>>
    BY <1>6 DEF EndDeploy
  <2>2. EndWrites(current[d], status) \in Calls
    BY <1>6 DEF EndDeploy, EndWrites, Writes, Written, TypeOK
  <2> QED
    BY <2>1, <2>2 DEF TypeOK
<1>7. ASSUME NEW d \in Deployers, Commit(d) PROVE TypeOK'
  <2>1. queue' \in Seq(Entry) /\ DOMAIN queue' = DOMAIN queue
    BY <1>7, CommitWrites DEF Wrote
  <2> QED
    BY <1>7, <2>1 DEF Commit, TypeOK
<1>8. ASSUME NEW d \in Deployers, Fail(d) PROVE TypeOK'
  <2>1. PICK rest \in {todo[d], <<>>} : todo' = [todo EXCEPT ![d] = rest]
    BY <1>8 DEF Fail
  <2>2. rest \in Seq(Rows)
    <3>1. todo[d] \in Seq(DOMAIN queue) /\ <<>> \in Seq(DOMAIN queue)
      BY DEF TypeOK
    <3> QED
      BY <3>1
  <2> QED
    BY <1>8, <2>1, <2>2 DEF Fail, TypeOK
<1>9. ASSUME NEW d \in Deployers, Crash(d) PROVE TypeOK'
  BY <1>9 DEF Crash, TypeOK
<1>10. CASE UNCHANGED vars
  BY <1>10 DEF vars, TypeOK
<1> QED
  BY <1>1, <1>2, <1>3, <1>4, <1>5, <1>6, <1>7, <1>8, <1>9, <1>10 DEF Next, Deployer

\* The table, the lists of the deployers and what their calls are about keep their
\* types: every id in them is the id of a row.
THEOREM TypeCorrect == Spec => []TypeOK
<1>1. Init => TypeOK
  BY DEF Init, TypeOK
<1> QED
  BY <1>1, TypeStep, PTL DEF Spec

-----------------------------------------------------------------------------
(***************************************************************************)
(* The order.  A call in flight would let a row overtake an older one if   *)
(* the older one waited and the call left it out: no call ever does.       *)
(***************************************************************************)
FrontTaken ==
  \A d \in Deployers : \A k \in call[d].ids, i \in DOMAIN queue :
    i < k /\ queue[i].status = "notstarted" => i \in call[d].ids
OrderInv == NoOvertaking /\ FrontTaken

LEMMA OrderStep ==
  ASSUME TypeOK, OrderInv, [Next]_vars
  PROVE  OrderInv'
<1> USE DEF OrderInv
<1>0. \A d \in Deployers : call[d].ids \subseteq DOMAIN queue
  BY DEF TypeOK, Idle, Writes
<1>1. ASSUME UNCHANGED <<queue, call>> PROVE OrderInv'
  BY <1>1 DEF NoOvertaking, FrontTaken
<1>2. ASSUME UNCHANGED queue, NEW d \in Deployers, NEW w, call' = [call EXCEPT ![d] = w],
             \A k \in w.ids, i \in DOMAIN queue :
               i < k /\ queue[i].status = "notstarted" => i \in w.ids
      PROVE  OrderInv'
  <2>1. NoOvertaking'
    BY <1>2 DEF NoOvertaking
  <2>2. \A e \in Deployers : call'[e] = IF e = d THEN w ELSE call[e]
    BY <1>2 DEF TypeOK
  <2>3. FrontTaken'
    BY <1>2, <2>2 DEF FrontTaken
  <2> QED
    BY <2>1, <2>3
<1>3. ASSUME NEW u \in Users, CommitInsert(u) PROVE OrderInv'
  <2>1. PICK p \in Processes : Added(p)
    BY <1>3 DEF CommitInsert, TypeOK, Added
  <2>2. /\ Len(queue) \in Nat /\ DOMAIN queue = 1 .. Len(queue)
        /\ DOMAIN queue' = 1 .. Len(queue) + 1
        /\ \A id \in DOMAIN queue : queue'[id] = queue[id]
        /\ queue'[Len(queue) + 1].status = "notstarted"
    BY <2>1, AddedRow, QueueDomain
  <2>3. NoOvertaking'
    <3> SUFFICES ASSUME NEW i \in DOMAIN queue', NEW k \in DOMAIN queue',
                        i < k, queue'[i].status = "notstarted"
                 PROVE  queue'[k].status \in {"notstarted", "deleted"}
      BY DEF NoOvertaking
    <3>1. CASE k = Len(queue) + 1
      BY <2>2, <3>1
    <3>2. CASE k # Len(queue) + 1
      <4>1. i \in DOMAIN queue /\ k \in DOMAIN queue
        BY <2>2, <3>2
      <4> QED
        BY <2>2, <4>1 DEF NoOvertaking
    <3> QED
      BY <3>1, <3>2
  <2>4. call' = call
    BY <1>3 DEF CommitInsert
  <2>5. FrontTaken'
    <3> SUFFICES ASSUME NEW d \in Deployers, NEW k \in call[d].ids, NEW i \in DOMAIN queue',
                        i < k, queue'[i].status = "notstarted"
                 PROVE  i \in call[d].ids
      BY <2>4 DEF FrontTaken
    <3>1. k \in 1 .. Len(queue) /\ i \in 1 .. Len(queue) + 1
      BY <1>0, <2>2
    <3>2. i \in DOMAIN queue
      BY <2>2, <3>1
    <3> QED
      BY <2>2, <3>2 DEF FrontTaken
  <2> QED
    BY <2>3, <2>5
<1>4. ASSUME NEW id \in DOMAIN queue, Delete(id) PROVE OrderInv'
  <2>1. Wrote({id}, "deleted") /\ call' = call
    BY <1>4, DeleteWrites DEF Delete
  <2>2. /\ DOMAIN queue' = DOMAIN queue
        /\ \A k \in DOMAIN queue : queue'[k].status \in {queue[k].status, "deleted"}
    BY <2>1 DEF Wrote
  <2> QED
    BY <2>1, <2>2 DEF NoOvertaking, FrontTaken
<1>5. ASSUME NEW d \in Deployers, Fetch(d) PROVE OrderInv'
  <2> DEFINE waiting == With("notstarted")
             taken == FirstOf(waiting, FetchNum)
             w == IF taken = {} THEN Idle ELSE Writes(taken, "picked")
  <2>1. call' = [call EXCEPT ![d] = w] /\ UNCHANGED queue
    BY <1>5, FetchFacts
  <2>2. w.ids = taken
    BY DEF Idle, Writes
  <2>3. ASSUME NEW k \in taken, NEW i \in DOMAIN queue, i < k, queue[i].status = "notstarted"
        PROVE  i \in taken
    <3>1. waiting \in SUBSET Nat /\ IsFiniteSet(waiting) /\ i \in waiting
      BY <2>3, QueueDomain DEF With
    <3> HIDE DEF waiting
    <3>2. FetchNum \in Nat
      BY DeployAssumption
    <3> QED
      BY <2>3, <3>1, <3>2, FirstOfIsFront
  <2> HIDE DEF w, taken
  <2> QED
    BY <1>2, <2>1, <2>2, <2>3
<1>6. ASSUME NEW d \in Deployers, InitDeploy(d) PROVE OrderInv'
  <2>1. PICK id \in DOMAIN queue : call' = [call EXCEPT ![d] = StartWrites(id)]
    BY <1>6, InitFacts
  <2>2. UNCHANGED queue
    BY <1>6 DEF InitDeploy
  <2>3. ASSUME NEW k \in StartWrites(id).ids, NEW i \in DOMAIN queue, i < k,
               queue[i].status = "notstarted"
        PROVE  i \in StartWrites(id).ids
    BY <2>3 DEF StartWrites, Idle, Writes, NoOvertaking
  <2> QED
    BY <1>2, <2>1, <2>2, <2>3
<1>7. ASSUME NEW d \in Deployers, NEW status \in Ended, EndDeploy(d, status) PROVE OrderInv'
  <2> DEFINE id == current[d]
             w == EndWrites(id, status)
  <2>1. id \in DOMAIN queue /\ call' = [call EXCEPT ![d] = w] /\ UNCHANGED queue
    BY <1>7 DEF EndDeploy, TypeOK
  <2>2. ASSUME NEW k \in w.ids, NEW i \in DOMAIN queue, i < k, queue[i].status = "notstarted"
        PROVE  i \in w.ids
    BY <2>1, <2>2 DEF EndWrites, Idle, Writes, NoOvertaking
  <2> HIDE DEF w
  <2> QED
    BY <1>2, <2>1, <2>2
<1>8. ASSUME NEW d \in Deployers, Commit(d) PROVE OrderInv'
  <2> DEFINE ids == call[d].ids
  <2>1. Wrote(ids, call[d].status) /\ call[d].status \in Written
    BY <1>8, CommitWrites
  <2>2. call' = [call EXCEPT ![d] = Idle]
    BY <1>8 DEF Commit
  <2>3. /\ DOMAIN queue' = DOMAIN queue
        /\ \A i \in DOMAIN queue : queue'[i].status = "notstarted"
             => queue[i].status = "notstarted" /\ i \notin ids
        /\ \A i \in DOMAIN queue \ ids : queue'[i] = queue[i]
    BY <2>1 DEF Wrote, Written, Ended
  <2>4. NoOvertaking'
    BY <2>3 DEF NoOvertaking, FrontTaken
  <2>5. \A e \in Deployers : call'[e].ids = IF e = d THEN {} ELSE call[e].ids
    BY <2>2 DEF TypeOK, Idle, Writes
  <2>6. FrontTaken'
    BY <2>3, <2>5 DEF FrontTaken
  <2> QED
    BY <2>4, <2>6
<1>9. ASSUME NEW d \in Deployers, Fail(d) \/ Crash(d) PROVE OrderInv'
  <2>1. call' = [call EXCEPT ![d] = Idle] /\ UNCHANGED queue /\ Idle.ids = {}
    BY <1>9 DEF Fail, Crash, Idle, Writes
  <2> QED
    BY <1>2, <2>1
<1>10. CASE (\E u \in Users, p \in Processes : AskInsert(u, p)) \/ UNCHANGED vars
  BY <1>1, <1>10 DEF AskInsert, vars
<1> QED
  BY <1>3, <1>4, <1>5, <1>6, <1>7, <1>8, <1>9, <1>10 DEF Next, Deployer

\* Rows are picked oldest first, however many deployers fetch at the same time, fail
\* and start again: FetchDeployDAO orders nothing, the order comes from the ids.
THEOREM OldestFirst == Spec => []NoOvertaking
<1>1. Init => OrderInv
  BY DEF Init, OrderInv, NoOvertaking, FrontTaken, Idle, Writes
<1>2. OrderInv => NoOvertaking
  BY DEF OrderInv
<1> QED
  BY <1>1, <1>2, OrderStep, TypeCorrect, PTL DEF Spec

-----------------------------------------------------------------------------
(***************************************************************************)
(* Who is at a running row.  The calls of initDeploy, haltDeploy and       *)
(* termDeploy are about the row their deployer is at; a call that fetches  *)
(* is made by a deployer that is at none.                                  *)
(***************************************************************************)
CallsAtHome ==
  \A d \in Deployers :
    \/ call[d] = Idle
    \/ call[d].status = "picked" /\ current[d] = Nothing
    \/ call[d].status \in {"running"} \union Ended /\ call[d].ids = {current[d]}
RunInv == CallsAtHome /\ RunningHasDeployer

LEMMA RunStep ==
  ASSUME TypeOK, RunInv, [Next]_vars
  PROVE  RunInv'
<1> USE DEF RunInv
<1>0. Nothing \notin With("running")
  BY QueueDomain DEF With
\* Where d is at, and what its call is about, may change; everybody else stays.
<1>1. ASSUME NEW d \in Deployers, NEW id, NEW w, crashes' = crashes,
             current' = [current EXCEPT ![d] = id], call' = [call EXCEPT ![d] = w],
             \/ w = Idle
             \/ w.status = "picked" /\ id = Nothing
             \/ w.status \in {"running"} \union Ended /\ w.ids = {id},
             With("running")' \subseteq With("running") \union {id},
             current[d] \in With("running")' => current[d] = id
      PROVE  RunInv'
  <2>1. \A e \in Deployers : /\ call'[e] = IF e = d THEN w ELSE call[e]
                             /\ current'[e] = IF e = d THEN id ELSE current[e]
    BY <1>1 DEF TypeOK
  <2>2. CallsAtHome'
    BY <1>1, <2>1 DEF CallsAtHome
  <2>3. RunningHasDeployer'
    BY <1>1, <2>1 DEF RunningHasDeployer
  <2> QED
    BY <2>2, <2>3
<1>2. \A d \in Deployers : current = [current EXCEPT ![d] = current[d]]
  BY DEF TypeOK
<1>3. ASSUME UNCHANGED <<current, call, crashes>>, With("running")' \subseteq With("running")
      PROVE  RunInv'
  BY <1>3 DEF CallsAtHome, RunningHasDeployer
<1>4. ASSUME NEW u \in Users, CommitInsert(u) PROVE RunInv'
  <2>1. PICK p \in Processes : Added(p)
    BY <1>4 DEF CommitInsert, TypeOK, Added
  <2>2. With("running")' \subseteq With("running")
    BY <2>1, AddedRow, QueueDomain DEF With
  <2> QED
    BY <1>3, <1>4, <2>2 DEF CommitInsert
<1>5. ASSUME NEW id \in DOMAIN queue, Delete(id) PROVE RunInv'
  <2>1. With("running")' \subseteq With("running")
    BY <1>5, DeleteWrites DEF Wrote, With
  <2> QED
    BY <1>3, <1>5, <2>1 DEF Delete
<1>6. ASSUME NEW d \in Deployers, Fetch(d) PROVE RunInv'
  <2> DEFINE taken == FirstOf(With("notstarted"), FetchNum)
             w == IF taken = {} THEN Idle ELSE Writes(taken, "picked")
  <2>1. /\ call' = [call EXCEPT ![d] = w]
        /\ UNCHANGED <<queue, current, crashes>> /\ current[d] = Nothing
    BY <1>6, FetchFacts
  <2>2. w = Idle \/ w.status = "picked"
    BY DEF Writes
  <2>3. With("running")' = With("running")
    BY <2>1 DEF With
  <2> HIDE DEF w
  <2>4. current' = [current EXCEPT ![d] = Nothing]
    BY <1>2, <2>1
  <2> QED
    BY <1>0, <1>1, <2>1, <2>2, <2>3, <2>4
<1>7. ASSUME NEW d \in Deployers, InitDeploy(d) PROVE RunInv'
  <2>1. PICK id \in DOMAIN queue :
          /\ current' = [current EXCEPT ![d] = id]
          /\ call' = [call EXCEPT ![d] = StartWrites(id)]
          /\ UNCHANGED <<queue, crashes>> /\ current[d] = Nothing
    BY <1>7, InitFacts
  <2>2. StartWrites(id) = Idle \/ (StartWrites(id).status = "running" /\ StartWrites(id).ids = {id})
    BY DEF StartWrites, Writes
  <2>3. With("running")' = With("running")
    BY <2>1 DEF With
  <2> QED
    BY <1>0, <1>1, <2>1, <2>2, <2>3
<1>8. ASSUME NEW d \in Deployers, NEW status \in Ended, EndDeploy(d, status) PROVE RunInv'
  <2> DEFINE w == EndWrites(current[d], status)
             id == IF w = Idle THEN Nothing ELSE current[d]
  <2>1. /\ call' = [call EXCEPT ![d] = w] /\ UNCHANGED <<queue, crashes>>
        /\ current' = [current EXCEPT ![d] = id]
    BY <1>2, <1>8 DEF EndDeploy
  <2>2. CASE queue[current[d]].status = "running"
    <3>1. w.status = status /\ w.ids = {current[d]} /\ w # Idle
      BY <2>2 DEF EndWrites, Writes, Idle
    <3> HIDE DEF w
    <3>2. With("running")' = With("running")
      BY <2>1 DEF With
    <3> QED
      BY <1>1, <2>1, <3>1, <3>2
  <2>3. CASE queue[current[d]].status # "running"
    <3>1. w = Idle
      BY <2>3 DEF EndWrites
    <3> HIDE DEF w
    <3>2. With("running")' = With("running") /\ current[d] \notin With("running")
      BY <2>1, <2>3 DEF With
    <3> QED
      BY <1>1, <2>1, <3>1, <3>2
  <2> QED
    BY <2>2, <2>3
<1>9. ASSUME NEW d \in Deployers, Commit(d) PROVE RunInv'
  <2> DEFINE id == IF call[d].status \in Ended THEN Nothing ELSE current[d]
  <2>1. Wrote(call[d].ids, call[d].status) /\ call[d] # Idle
    BY <1>9, CommitWrites DEF Commit
  <2>2. /\ call' = [call EXCEPT ![d] = Idle] /\ crashes' = crashes
        /\ current' = [current EXCEPT ![d] = id]
    BY <1>2, <1>9 DEF Commit
  <2>3. CASE call[d].status = "picked" /\ current[d] = Nothing
    <3>1. With("running")' \subseteq With("running")
      BY <2>1, <2>3 DEF Wrote, With
    <3>2. id = Nothing
      BY <2>3
    <3> QED
      BY <1>0, <1>1, <2>2, <2>3, <3>1, <3>2
  <2>4. CASE call[d].status = "running" /\ call[d].ids = {current[d]}
    <3>1. With("running")' \subseteq With("running") \union {current[d]}
      BY <2>1, <2>4 DEF Wrote, With
    <3>2. id = current[d]
      BY <2>4 DEF Ended
    <3> QED
      BY <1>1, <2>2, <3>1, <3>2
  <2>5. CASE call[d].status \in Ended /\ call[d].ids = {current[d]}
    <3>1. With("running")' \subseteq With("running") \ {current[d]}
      BY <2>1, <2>5 DEF Wrote, With, Ended
    <3> QED
      BY <1>1, <2>2, <3>1
  <2> QED
    BY <2>1, <2>3, <2>4, <2>5 DEF CallsAtHome
<1>10. ASSUME NEW d \in Deployers, Fail(d) PROVE RunInv'
  <2>1. /\ call' = [call EXCEPT ![d] = Idle] /\ UNCHANGED <<queue, crashes>>
        /\ current' = [current EXCEPT ![d] = Nothing]
    BY <1>10 DEF Fail
  <2>2. With("running")' = With("running")
    BY <2>1 DEF With
  <2>3. current[d] \notin With("running")
    <3>1. PICK id \in call[d].ids : queue[id].status = "deleted"
      BY <1>10 DEF Fail, Gone
    <3>2. call[d] # Idle
      BY <3>1 DEF Idle, Writes
    <3> QED
      BY <1>0, <3>1, <3>2 DEF CallsAtHome, With
  <2> QED
    BY <1>1, <2>1, <2>2, <2>3
<1>11. ASSUME NEW d \in Deployers, Crash(d) PROVE RunInv'
  <2>1. \A e \in Deployers :
          \/ call'[e] = Idle
          \/ call'[e] = call[e] /\ current'[e] = current[e]
    BY <1>11 DEF Crash, TypeOK
  <2>2. CallsAtHome'
    BY <2>1 DEF CallsAtHome
  <2>3. crashes' > 0
    BY <1>11 DEF Crash, TypeOK
  <2> QED
    BY <2>2, <2>3 DEF RunningHasDeployer
<1>12. CASE (\E u \in Users, p \in Processes : AskInsert(u, p)) \/ UNCHANGED vars
  <2>1. UNCHANGED <<queue, current, call, crashes>>
    BY <1>12 DEF AskInsert, vars
  <2> QED
    BY <1>3, <2>1 DEF With
<1> QED
  BY <1>4, <1>5, <1>6, <1>7, <1>8, <1>9, <1>10, <1>11, <1>12 DEF Next, Deployer

\* Unless a deployer died, a row shown as RUNNING is at the script of one, although a
\* late initDeploy sets rows back to RUNNING that had already ended.
THEOREM RunningIsDeployed == Spec => []RunningHasDeployer
<1>1. Init => RunInv
  BY DEF Init, RunInv, CallsAtHome, RunningHasDeployer, With
<1>2. RunInv => RunningHasDeployer
  BY DEF RunInv
<1> QED
  BY <1>1, <1>2, RunStep, TypeCorrect, PTL DEF Spec

-----------------------------------------------------------------------------
\* A result that no call in flight is about stays until its row is deleted: whatever
\* a deployer calls once the row has ended finds it ended and leaves it alone.
THEOREM ResultsSettle == Spec => ResultSettled
<1> DEFINE Stays == \A id \in DOMAIN queue : Settled(id)
                      => \/ queue'[id].status = "deleted"
                         \/ queue'[id] = queue[id] /\ Settled(id)'
<1>1. TypeOK /\ [Next]_vars => [Stays]_vars
  <2> SUFFICES ASSUME TypeOK, Next, NEW x \in DOMAIN queue, Settled(x),
                      queue'[x].status # "deleted"
               PROVE  queue'[x] = queue[x] /\ Settled(x)'
    BY DEF vars
  <2>0. queue[x].status \in Ended /\ \A e \in Deployers : x \notin call[e].ids
    BY DEF Settled
  \* It is enough that the row stays and that no call is begun about it.
  <2>1. ASSUME x \in DOMAIN queue', queue'[x] = queue[x],
               \/ UNCHANGED call
               \/ \E d \in Deployers : \E w : call' = [call EXCEPT ![d] = w] /\ x \notin w.ids
        PROVE  queue'[x] = queue[x] /\ Settled(x)'
    <3>1. \A e \in Deployers : x \notin call'[e].ids
      BY <2>0, <2>1 DEF TypeOK
    <3> QED
      BY <2>0, <2>1, <3>1 DEF Settled
  <2>2. ASSUME NEW u \in Users, CommitInsert(u) PROVE queue'[x] = queue[x] /\ Settled(x)'
    <3>1. PICK p \in Processes : Added(p)
      BY <2>2 DEF CommitInsert, TypeOK, Added
    <3> QED
      BY <2>1, <2>2, <3>1, AddedRow, QueueDomain DEF CommitInsert
  <2>3. ASSUME NEW id \in DOMAIN queue, Delete(id) PROVE queue'[x] = queue[x] /\ Settled(x)'
    <3>1. Wrote({id}, "deleted") /\ UNCHANGED call
      BY <2>3, DeleteWrites DEF Delete
    <3> QED
      BY <2>1, <3>1 DEF Wrote
  <2>4. ASSUME NEW d \in Deployers, Fetch(d) PROVE queue'[x] = queue[x] /\ Settled(x)'
    <3> DEFINE taken == FirstOf(With("notstarted"), FetchNum)
               w == IF taken = {} THEN Idle ELSE Writes(taken, "picked")
    <3>1. /\ taken \subseteq With("notstarted") /\ UNCHANGED queue
          /\ call' = [call EXCEPT ![d] = w]
      BY <2>4, FetchFacts
    <3>2. x \notin w.ids
      BY <2>0, <3>1 DEF With, Ended, Idle, Writes
    <3> HIDE DEF w
    <3> QED
      BY <2>1, <3>1, <3>2
  <2>5. ASSUME NEW d \in Deployers, InitDeploy(d) PROVE queue'[x] = queue[x] /\ Settled(x)'
    <3>1. PICK id \in DOMAIN queue :
            call' = [call EXCEPT ![d] = StartWrites(id)] /\ UNCHANGED queue
      BY <2>5, InitFacts
    <3>2. x \notin StartWrites(id).ids
      BY <2>0 DEF StartWrites, Ended, Idle, Writes
    <3> QED
      BY <2>1, <3>1, <3>2
  <2>6. ASSUME NEW d \in Deployers, NEW status \in Ended, EndDeploy(d, status)
        PROVE  queue'[x] = queue[x] /\ Settled(x)'
    <3>1. call' = [call EXCEPT ![d] = EndWrites(current[d], status)] /\ UNCHANGED queue
      BY <2>6 DEF EndDeploy
    <3>2. x \notin EndWrites(current[d], status).ids
      BY <2>0 DEF EndWrites, Ended, Idle, Writes
    <3> QED
      BY <2>1, <3>1, <3>2
  <2>7. ASSUME NEW d \in Deployers, Commit(d) PROVE queue'[x] = queue[x] /\ Settled(x)'
    <3>1. Wrote(call[d].ids, call[d].status) /\ call' = [call EXCEPT ![d] = Idle]
      BY <2>7, CommitWrites DEF Commit
    <3>2. x \in DOMAIN queue' /\ queue'[x] = queue[x]
      BY <2>0, <3>1 DEF Wrote
    <3>3. x \notin Idle.ids
      BY DEF Idle, Writes
    <3> QED
      BY <2>1, <3>1, <3>2, <3>3
  <2>8. ASSUME NEW d \in Deployers, Fail(d) \/ Crash(d)
        PROVE  queue'[x] = queue[x] /\ Settled(x)'
    <3>1. call' = [call EXCEPT ![d] = Idle] /\ UNCHANGED queue /\ x \notin Idle.ids
      BY <2>8 DEF Fail, Crash, Idle, Writes
    <3> QED
      BY <2>1, <3>1
  <2>9. ASSUME NEW u \in Users, NEW p \in Processes, AskInsert(u, p)
        PROVE  queue'[x] = queue[x] /\ Settled(x)'
    BY <2>1, <2>9 DEF AskInsert
  <2> QED
    BY <2>2, <2>3, <2>4, <2>5, <2>6, <2>7, <2>8, <2>9 DEF Next, Deployer
<1> QED
  BY <1>1, TypeCorrect, PTL DEF Spec, ResultSettled

=============================================================================
