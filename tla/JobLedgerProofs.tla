-------------------------- MODULE JobLedgerProofs --------------------------
(* The tables of JobControl implement the ledger of JobLedger, for every    *)
(* catalogue of processes: each call is a step of the ledger, or none.      *)
EXTENDS JobControlProofs

Active == {j \in Jobs : Running(j) # {}}
Waiting(queue) == IdsOf({r \in queue : ~Claimed(r)})
Taking(queue) == IdsOf({r \in queue : Claimed(r)})

LedgerInv == BatchInv /\ OneInstance

\* The ids of some rows, step by step.
LEMMA IdsOfFacts ==
  ASSUME NEW rows
  PROVE  /\ IdsOf(rows) = [s \in Subs |-> IdsOf(rows)[s]]
         /\ \A s \in Subs : \A i :
              i \in IdsOf(rows)[s] <=> \E r \in rows : r.proc = s /\ r.id = i
BY DEF IdsOf, RowsOf

LEMMA SplitFacts ==
  ASSUME NEW queue
  PROVE  /\ Waiting(queue) = [s \in Subs |-> Waiting(queue)[s]]
         /\ Taking(queue) = [s \in Subs |-> Taking(queue)[s]]
         /\ \A s \in Subs : \A i :
              i \in Waiting(queue)[s] <=> \E r \in queue : r.proc = s /\ r.id = i /\ ~Claimed(r)
         /\ \A s \in Subs : \A i :
              i \in Taking(queue)[s] <=> \E r \in queue : r.proc = s /\ r.id = i /\ Claimed(r)
<1> DEFINE w == {r \in queue : ~Claimed(r)}
           t == {r \in queue : Claimed(r)}
<1>1. /\ \A r : r \in w <=> r \in queue /\ ~Claimed(r)
      /\ \A r : r \in t <=> r \in queue /\ Claimed(r)
      /\ Waiting(queue) = IdsOf(w) /\ Taking(queue) = IdsOf(t)
  BY DEF Waiting, Taking
<1> HIDE DEF w, t
<1>2. QED
  BY <1>1, IdsOfFacts

LEMMA SplitForm ==
  ASSUME NEW queue, NEW f, DOMAIN f = Subs, f = [s \in Subs |-> f[s]]
  PROVE  /\ (\A s \in Subs : \A i : i \in Waiting(queue)[s] <=> i \in f[s]) => Waiting(queue) = f
         /\ (\A s \in Subs : \A i : i \in Taking(queue)[s] <=> i \in f[s]) => Taking(queue) = f
<1>1. ASSUME NEW g, g = [s \in Subs |-> g[s]], \A s \in Subs : \A i : i \in g[s] <=> i \in f[s]
      PROVE  g = f
  <2>1. \A s \in Subs : g[s] = f[s]
    BY <1>1
  <2>2. QED
    BY <1>1, <2>1
<1>2. Waiting(queue) = [s \in Subs |-> Waiting(queue)[s]] /\ Taking(queue) = [s \in Subs |-> Taking(queue)[s]]
  BY SplitFacts
<1>3. QED
  BY <1>1, <1>2

\* What the variables of the ledger are after a call.
LEMMA LedgerPrimed ==
  /\ Active' = {j \in Jobs : Running(j)' # {}}
  /\ Waiting(bcq)' = Waiting(bcq') /\ Taking(bcq)' = Taking(bcq')
  /\ IdsOf(archive)' = IdsOf(archive')
BY DEF Active, Waiting, Taking, IdsOf, RowsOf, Claimed

\* New rows for the steps of S, and claimed rows moved to the archive.
LEMMA ArrivalShown ==
  ASSUME LedgerInv, NEW S \in SUBSET Subs, NEW src,
         NEW moved \in SUBSET bcq, \A r \in moved : Claimed(r),
         bcq' = (bcq \ moved) \union NewRows(S, src), archive' = archive \union moved
  PROVE  /\ Waiting(bcq') = Ledger!Arrived(S)
         /\ Taking(bcq') = [s \in Subs |-> Taking(bcq)[s] \ IdsOf(moved)[s]]
         /\ IdsOf(archive') = [s \in Subs |-> IdsOf(archive)[s] \union IdsOf(moved)[s]]
         /\ \A s \in Subs : IdsOf(moved)[s] \subseteq Taking(bcq)[s]
<1>0. NoTwins(bcq)
  BY DEF LedgerInv, BatchInv, OrderInv, IdsInv, IdsKept
<1>1. /\ \A r \in NewRows(S, src) : r.proc \in S /\ r.id = lastId[r.proc] + 1 /\ ~Claimed(r)
      /\ \A s \in S : \E r \in NewRows(S, src) : r.proc = s
  <2>1. \A s \in S : NewRow(s, src) \in NewRows(S, src) /\ NewRow(s, src).proc = s
    BY DEF NewRows, NewRow
  <2>2. QED
    BY <2>1, NewRowHas
<1> DEFINE new == NewRows(S, src)
           old == bcq \ moved
<1>2. bcq' = old \union new
  OBVIOUS
<1> HIDE DEF new
<1>3. ASSUME NEW s \in Subs, NEW i
      PROVE  i \in Waiting(bcq')[s] <=>
               i \in (IF s \in S THEN Waiting(bcq)[s] \union {lastId[s] + 1} ELSE Waiting(bcq)[s])
  <2>1. i \in Waiting(bcq')[s] <=> \E r \in bcq' : r.proc = s /\ r.id = i /\ ~Claimed(r)
    BY SplitFacts
  <2>2. i \in Waiting(bcq)[s] <=> \E r \in bcq : r.proc = s /\ r.id = i /\ ~Claimed(r)
    BY SplitFacts
  <2>3. (\E r \in bcq : r.proc = s /\ r.id = i /\ ~Claimed(r)) <=>
          (\E r \in old : r.proc = s /\ r.id = i /\ ~Claimed(r))
    OBVIOUS
  <2>4. (\E r \in new : r.proc = s /\ r.id = i /\ ~Claimed(r)) <=>
          s \in S /\ i = lastId[s] + 1
    BY <1>1 DEF new
  <2> HIDE DEF old
  <2>5. QED
    BY <1>2, <2>1, <2>2, <2>3, <2>4
<1>4. Waiting(bcq') = Ledger!Arrived(S)
  <2>1. Ledger!Arrived(S) = [s \in Subs |-> IF s \in S THEN Waiting(bcq)[s] \union {lastId[s] + 1}
                                            ELSE Waiting(bcq)[s]]
    BY DEF Ledger!Arrived, Waiting
  <2> DEFINE f == Ledger!Arrived(S)
  <2>2. DOMAIN f = Subs /\ f = [s \in Subs |-> f[s]]
    BY <2>1
  <2>3. \A s \in Subs : \A i : i \in Waiting(bcq')[s] <=> i \in f[s]
    BY <1>3, <2>1
  <2> HIDE DEF f
  <2>4. Waiting(bcq') = f
    BY <2>2, <2>3, SplitForm
  <2>5. QED
    BY <2>4 DEF f
<1>5. ASSUME NEW s \in Subs, NEW i
      PROVE  i \in Taking(bcq')[s] <=> i \in Taking(bcq)[s] \ IdsOf(moved)[s]
  <2>1. i \in Taking(bcq')[s] <=> \E r \in bcq' : r.proc = s /\ r.id = i /\ Claimed(r)
    BY SplitFacts
  <2>2. i \in Taking(bcq)[s] <=> \E r \in bcq : r.proc = s /\ r.id = i /\ Claimed(r)
    BY SplitFacts
  <2>3. i \in IdsOf(moved)[s] <=> \E r \in moved : r.proc = s /\ r.id = i
    BY IdsOfFacts
  <2>4. (\E r \in bcq' : r.proc = s /\ r.id = i /\ Claimed(r)) <=>
          (\E r \in old : r.proc = s /\ r.id = i /\ Claimed(r))
    BY <1>1, <1>2 DEF new
  <2>5. \A r \in bcq, x \in moved : r.proc = x.proc /\ r.id = x.id => r = x
    BY <1>0 DEF NoTwins, SameRow
  <2>6. QED
    BY <2>1, <2>2, <2>3, <2>4, <2>5
<1>6. Taking(bcq') = [s \in Subs |-> Taking(bcq)[s] \ IdsOf(moved)[s]]
  <2> DEFINE f == [s \in Subs |-> Taking(bcq)[s] \ IdsOf(moved)[s]]
  <2>2. DOMAIN f = Subs /\ f = [s \in Subs |-> f[s]]
    OBVIOUS
  <2>3. \A s \in Subs : \A i : i \in Taking(bcq')[s] <=> i \in f[s]
    BY <1>5
  <2> HIDE DEF f
  <2>4. Taking(bcq') = f
    BY <2>2, <2>3, SplitForm
  <2>5. QED
    BY <2>4 DEF f
<1>7. IdsOf(archive') = [s \in Subs |-> IdsOf(archive)[s] \union IdsOf(moved)[s]]
  <2>1. ASSUME NEW s \in Subs, NEW i
        PROVE  i \in IdsOf(archive')[s] <=> i \in IdsOf(archive)[s] \union IdsOf(moved)[s]
    BY IdsOfFacts
  <2>2. QED
    BY <2>1, IdsOfFacts
<1>8. \A s \in Subs : IdsOf(moved)[s] \subseteq Taking(bcq)[s]
  BY IdsOfFacts, SplitFacts
<1>9. QED
  BY <1>4, <1>6, <1>7, <1>8

\* A call that sets states of rows shows nothing in the ledger's queues.
LEMMA RestateHidden ==
  ASSUME LedgerInv, NEW rows \in SUBSET bcq, NEW state \in BatchState,
         bcq' = Restated(bcq, rows, state)
  PROVE  Waiting(bcq') = Waiting(bcq) /\ Taking(bcq') = Taking(bcq)
<1>0. bcq \in SUBSET Row
  BY DEF LedgerInv, BatchInv, OrderInv, IdsInv, TypeOK
<1>1. /\ \A x \in bcq' : \E y \in bcq : x.proc = y.proc /\ x.id = y.id /\ x.tgt = y.tgt
      /\ \A y \in bcq : \E x \in bcq' : x.proc = y.proc /\ x.id = y.id /\ x.tgt = y.tgt
  BY <1>0, RestateFacts DEF Alike
<1>2. ASSUME NEW s \in Subs, NEW i
      PROVE  /\ i \in Waiting(bcq')[s] <=> i \in Waiting(bcq)[s]
             /\ i \in Taking(bcq')[s] <=> i \in Taking(bcq)[s]
  BY <1>1, SplitFacts DEF Claimed
<1>3. /\ DOMAIN Waiting(bcq) = Subs /\ Waiting(bcq) = [s \in Subs |-> Waiting(bcq)[s]]
      /\ DOMAIN Taking(bcq) = Subs /\ Taking(bcq) = [s \in Subs |-> Taking(bcq)[s]]
  BY SplitFacts
<1>4. QED
  BY <1>2, <1>3, SplitForm

\* The runs in progress after one starts, and after one ends.
LEMMA ActiveAfterStart ==
  ASSUME TypeOK, NEW j \in Jobs, NEW n \in Nat, execs' = Start(j, n)
  PROVE  Active' = Active \union {j}
<1>1. /\ Running(j)' # {}
      /\ \A k \in Jobs \ {j} : Running(k)' = Running(k)
  BY RunningAfterStart DEF Processes
<1>2. QED
  BY <1>1, LedgerPrimed DEF Active

LEMMA ActiveAfterFinish ==
  ASSUME TypeOK, OneInstance, NEW j \in Jobs, NEW i \in Running(j),
         NEW st \in {"success", "failed"}, execs' = Finish(j, i, st)
  PROVE  j \in Active /\ Active' = Active \ {j}
<1>1. /\ Running(j)' = Running(j) \ {i}
      /\ \A k \in Jobs \ {j} : Running(k)' = Running(k)
  BY RunningAfterFinish DEF Processes
<1>2. Running(j) = {i}
  BY DEF OneInstance, Processes
<1>3. QED
  BY <1>1, <1>2, LedgerPrimed DEF Active

-----------------------------------------------------------------------------
(***************************************************************************)
(* The steps of the ledger.                                                *)
(***************************************************************************)
LEMMA FailShown ==
  ASSUME LedgerInv, NEW j \in Jobs, TermJob(j)
  PROVE  Ledger!Fail(j)
<1>1. PICK i \in Running(j) : execs' = Finish(j, i, "failed")
  BY DEF TermJob
<1>2. TypeOK /\ OneInstance
  BY DEF LedgerInv, BatchInv, OrderInv, IdsInv
<1>3. j \in Active /\ Active' = Active \ {j}
  BY <1>1, <1>2, ActiveAfterFinish
<1>4. UNCHANGED <<lastId, Waiting(bcq), Taking(bcq), IdsOf(archive)>>
  BY LedgerPrimed DEF TermJob
<1>5. QED
  BY <1>3, <1>4 DEF Ledger!Fail, Active, Waiting, Taking

LEMMA FileShown ==
  ASSUME LedgerInv, NEW j \in Jobs, BatchEnqueue(j)
  PROVE  Ledger!File(j)
<1>0. TypeOK
  BY DEF LedgerInv, BatchInv, OrderInv, IdsInv
<1>1. PICK src \in Nat : /\ bcq' = bcq \union NewRows(Downstream(j), src)
                         /\ lastId' = CountIds(Downstream(j)) /\ UNCHANGED <<execs, archive>>
  BY <1>0, FileEffect
<1> DEFINE none == {}
<1>2. /\ bcq' = (bcq \ none) \union NewRows(Downstream(j), src)
      /\ archive' = archive \union none /\ none \in SUBSET bcq
      /\ \A r \in none : Claimed(r)
  BY <1>1
<1>a. \A s \in Subs : IdsOf(none)[s] = {}
  BY DEF IdsOf, RowsOf
<1>3. Downstream(j) \in SUBSET Subs
  BY SubsOfFacts
<1> HIDE DEF none
<1>4. /\ Waiting(bcq') = Ledger!Arrived(Downstream(j))
      /\ Taking(bcq') = [s \in Subs |-> Taking(bcq)[s] \ IdsOf(none)[s]]
  BY <1>2, <1>3, ArrivalShown
<1>5. Taking(bcq') = Taking(bcq)
  <2>1. \A s \in Subs : Taking(bcq)[s] \ IdsOf(none)[s] = Taking(bcq)[s]
    BY <1>a
  <2>2. Taking(bcq) = [s \in Subs |-> Taking(bcq)[s]]
    BY SplitFacts
  <2>3. QED
    BY <1>4, <2>1, <2>2
<1>6. UNCHANGED <<Active, Taking(bcq), IdsOf(archive)>>
  BY <1>1, <1>5, LedgerPrimed DEF Active, Running
<1>7. Downstream(j) = Ledger!FedBy(j)
  BY DEF Downstream, Ledger!FedBy
<1>8. Waiting(bcq)' = Ledger!Arrived(Ledger!FedBy(j)) /\ lastId' = Ledger!Counted(Ledger!FedBy(j))
  BY <1>1, <1>4, <1>7, LedgerPrimed DEF CountIds, Ledger!Counted
<1>9. QED
  BY <1>6, <1>8 DEF Ledger!File, Active, Waiting, Taking

LEMMA SucceedShown ==
  ASSUME LedgerInv, NEW j \in Jobs, HaltJob(j)
  PROVE  Ledger!Succeed(j)
<1>0. /\ TypeOK /\ OneInstance /\ MarkedAreClaimed
      /\ bcq \in SUBSET Row
  BY DEF LedgerInv, BatchInv, OrderInv, IdsInv, TypeOK
<1>1. PICK src \in Nat : /\ bcq' = (bcq \ Consumed(j)) \union NewRows(Downstream(j), src)
                         /\ archive' = archive \union Consumed(j)
                         /\ lastId' = CountIds(Downstream(j))
  BY <1>0, HaltEffect
<1> DEFINE put == [s \in SubsOf(j) |-> IdsOf(Consumed(j))[s]]
<1>2. /\ Consumed(j) \in SUBSET bcq
      /\ \A r \in Consumed(j) : Claimed(r) /\ r.proc \in SubsOf(j)
  BY <1>0 DEF Consumed, JobRows, MarkedAreClaimed, Marked, SubsOf, Row
<1>3. Downstream(j) \in SUBSET Subs /\ SubsOf(j) \subseteq Subs
  BY SubsOfFacts
<1>4. /\ Waiting(bcq') = Ledger!Arrived(Downstream(j))
      /\ Taking(bcq') = [s \in Subs |-> Taking(bcq)[s] \ IdsOf(Consumed(j))[s]]
      /\ IdsOf(archive') = [s \in Subs |-> IdsOf(archive)[s] \union IdsOf(Consumed(j))[s]]
      /\ \A s \in Subs : IdsOf(Consumed(j))[s] \subseteq Taking(bcq)[s]
  BY <1>1, <1>2, <1>3, ArrivalShown
<1>5. \A s \in Subs \ SubsOf(j) : IdsOf(Consumed(j))[s] = {}
  BY <1>2, IdsOfFacts
<1>6. /\ put \in [SubsOf(j) -> SUBSET UNION {Taking(bcq)[s] : s \in SubsOf(j)}]
      /\ \A s \in SubsOf(j) : put[s] \subseteq Taking(bcq)[s]
  BY <1>3, <1>4
<1>7. /\ Taking(bcq') = [s \in Subs |-> IF s \in SubsOf(j) THEN Taking(bcq)[s] \ put[s]
                                                           ELSE Taking(bcq)[s]]
      /\ IdsOf(archive') = [s \in Subs |-> IF s \in SubsOf(j) THEN IdsOf(archive)[s] \union put[s]
                                                              ELSE IdsOf(archive)[s]]
  BY <1>4, <1>5
<1>8. j \in Active /\ Active' = Active \ {j}
  <2>1. PICK i \in Running(j) : execs' = Finish(j, i, "success")
    BY DEF HaltJob
  <2>2. QED
    BY <1>0, <2>1, ActiveAfterFinish
<1> HIDE DEF put
<1>9. /\ SubsOf(j) = Ledger!StepsOf(j)
      /\ Waiting(bcq') = Ledger!Arrived(Ledger!FedBy(j))
      /\ lastId' = Ledger!Counted(Ledger!FedBy(j))
  BY <1>1, <1>4 DEF SubsOf, Downstream, CountIds, Ledger!StepsOf, Ledger!FedBy, Ledger!Counted
<1>10. \E p \in [Ledger!StepsOf(j) -> SUBSET UNION {Taking(bcq)[s] : s \in Ledger!StepsOf(j)}] :
         /\ \A s \in Ledger!StepsOf(j) : p[s] \subseteq Taking(bcq)[s]
         /\ Taking(bcq)' = [s \in Subs |-> IF s \in Ledger!StepsOf(j) THEN Taking(bcq)[s] \ p[s]
                                           ELSE Taking(bcq)[s]]
         /\ IdsOf(archive)' = [s \in Subs |-> IF s \in Ledger!StepsOf(j) THEN IdsOf(archive)[s] \union p[s]
                                              ELSE IdsOf(archive)[s]]
  <2>1. /\ Ledger!StepsOf(j) = SubsOf(j)
        /\ Taking(bcq)' = Taking(bcq') /\ IdsOf(archive)' = IdsOf(archive')
    BY <1>9, LedgerPrimed
  <2>2. put \in [Ledger!StepsOf(j) -> SUBSET UNION {Taking(bcq)[s] : s \in Ledger!StepsOf(j)}]
    BY <1>6, <2>1
  <2>3. WITNESS put \in [Ledger!StepsOf(j) -> SUBSET UNION {Taking(bcq)[s] : s \in Ledger!StepsOf(j)}]
  <2>4. QED
    BY <1>6, <1>7, <2>1
<1>11. /\ j \in Active /\ Active' = Active \ {j}
       /\ Waiting(bcq)' = Ledger!Arrived(Ledger!FedBy(j))
       /\ lastId' = Ledger!Counted(Ledger!FedBy(j))
  BY <1>8, <1>9, LedgerPrimed
<1>12. QED
  BY <1>10, <1>11 DEF Ledger!Succeed, Active, Waiting, Taking

LEMMA AgainShown ==
  ASSUME LedgerInv, NEW j \in Jobs, NEW maxBatch \in MaxBatchArgs, InitJob(j, maxBatch), Rerun(j)
  PROVE  Ledger!BeginAgain(j)
<1>0. /\ TypeOK /\ bcq \in SUBSET Row /\ Len(execs[j]) + 1 \in Nat
  BY ExecFacts DEF LedgerInv, BatchInv, OrderInv, IdsInv, TypeOK, Processes
<1>1. j \notin Active /\ Active' = Active \union {j}
  <2>1. j \notin Active
    BY DEF InitJob, AcceptsInitJob, NotRunning, Active
  <2>2. execs' = Start(j, Len(execs[j]) + 1)
    BY DEF InitJob
  <2>3. QED
    BY <1>0, <2>1, <2>2, ActiveAfterStart
<1>2. Waiting(bcq') = Waiting(bcq) /\ Taking(bcq') = Taking(bcq)
  <2>1. PICK rows \in SUBSET bcq : bcq' = Restated(bcq, rows, "accessed")
    BY RerunEffect
  <2>2. QED
    BY <2>1, RestateHidden DEF BatchState
<1>3. UNCHANGED <<lastId, Waiting(bcq), Taking(bcq), IdsOf(archive)>>
  BY <1>2, LedgerPrimed DEF InitJob, Rerun
<1>4. \E s \in Ledger!StepsOf(j) : Taking(bcq)[s] # {}
  <2>1. PICK r \in bcq : ParentOf[r.proc] = j /\ Claimed(r)
    BY DEF Rerun, IsRerun, JobRows
  <2>2. r.proc \in Subs /\ r.proc \in Ledger!StepsOf(j)
    BY <1>0, <2>1 DEF Row, Ledger!StepsOf
  <2>3. r.id \in Taking(bcq)[r.proc]
    BY <2>1, <2>2, SplitFacts
  <2>4. QED
    BY <2>2, <2>3
<1>5. QED
  BY <1>1, <1>3, <1>4 DEF Ledger!BeginAgain, Active, Waiting, Taking

\* What a fresh run shows: it seeds the queue, and takes the front of each queue of
\* its steps.
LEMMA BeginShown ==
  ASSUME LedgerInv, NEW j \in Jobs, NEW maxBatch \in MaxBatchArgs, InitJob(j, maxBatch),
         FreshRun(j, maxBatch)
  PROVE  Ledger!Begin(j)
<1> DEFINE queue == SeededQueue(j)
           rows  == TakenRows(j, maxBatch)
           S     == Seeds(j)
           avail == Ledger!Arrived(S)
           part  == [s \in SubsOf(j) |-> IdsOf(rows)[s]]
<1>0. /\ IdsInv /\ TypeOK /\ bcq \in SUBSET Row /\ NoTwins(bcq)
      /\ IdsKept(queue, archive, lastId')
      /\ Len(batches) + 1 \in Nat /\ Len(execs[j]) + 1 \in Nat
  BY ExecFacts, FreshEffect DEF LedgerInv, BatchInv, OrderInv, IdsInv, IdsKept, TypeOK, Processes
<1>1. /\ queue \in SUBSET Row /\ NoTwins(queue) /\ rows \in SUBSET queue
      /\ bcq' = Claims(queue, rows, Len(batches) + 1)
      /\ \A r \in rows : ParentOf[r.proc] = j
      /\ \A r \in rows, x \in queue : x.proc = r.proc /\ x.id < r.id => x \in rows
      /\ \A x \in queue : ParentOf[x.proc] = j => \E r \in rows : r.proc = x.proc
  BY <1>0, FreshEffect DEF IdsKept
<1>2. S \in SUBSET Subs /\ SubsOf(j) \subseteq Subs /\ SubsOf(j) = Ledger!StepsOf(j)
  BY SubsOfFacts DEF SubsOf, Ledger!StepsOf
<1>3. /\ S \in {{}, Ledger!StepsOf(j)}
      /\ \A s \in S : EnqueuingProcess[s] \notin Jobs
  BY <1>2, CatalogueAssumption DEF Seeds, NoProcess
<1>4. \A s \in Subs : avail[s] = IF s \in S THEN Waiting(bcq)[s] \union {lastId[s] + 1}
                                 ELSE Waiting(bcq)[s]
  BY DEF Ledger!Arrived, Waiting
<1>5. avail = [s \in Subs |-> avail[s]]
  BY DEF Ledger!Arrived
<1> DEFINE new == NewRows(S, InitialBatch)
<1>6. /\ queue = bcq \union new
      /\ \A r \in new : r.proc \in S /\ r.id = lastId[r.proc] + 1 /\ ~Claimed(r)
      /\ \A s \in S : \E r \in new : r.proc = s
  <2>1. \A s \in S : NewRow(s, InitialBatch) \in new /\ NewRow(s, InitialBatch).proc = s
    BY DEF NewRows, NewRow
  <2>2. QED
    BY <2>1, NewRowHas DEF SeededQueue
<1>7. \A r \in bcq : ParentOf[r.proc] = j => ~Claimed(r)
  BY DEF FreshRun, IsRerun, JobRows
<1> HIDE DEF queue, rows, S, avail, new
\* The ids there are to take, the unclaimed ones of the seeded queue.
<1>8. \A s \in Subs : \A i : i \in avail[s] <=> \E r \in queue : r.proc = s /\ r.id = i /\ ~Claimed(r)
  <2> TAKE s \in Subs
  <2> TAKE i
  <2>1. i \in Waiting(bcq)[s] <=> \E r \in bcq : r.proc = s /\ r.id = i /\ ~Claimed(r)
    BY SplitFacts
  <2>2. (\E r \in new : r.proc = s /\ r.id = i /\ ~Claimed(r)) <=> s \in S /\ i = lastId[s] + 1
    BY <1>6
  <2>3. (\E r \in queue : r.proc = s /\ r.id = i /\ ~Claimed(r)) <=>
          \/ \E r \in bcq : r.proc = s /\ r.id = i /\ ~Claimed(r)
          \/ \E r \in new : r.proc = s /\ r.id = i /\ ~Claimed(r)
    BY <1>6
  <2>4. i \in avail[s] <=> i \in Waiting(bcq)[s] \/ (s \in S /\ i = lastId[s] + 1)
    BY <1>4
  <2>5. QED
    BY <2>1, <2>2, <2>3, <2>4
<1>9. \A r \in queue : ParentOf[r.proc] = j => ~Claimed(r)
  BY <1>6, <1>7
<1>10. ASSUME NEW s \in SubsOf(j)
       PROVE  /\ part[s] = IdsOf(rows)[s]
              /\ \A i : i \in part[s] <=> \E r \in rows : r.proc = s /\ r.id = i
              /\ \A i : i \in avail[s] <=> \E r \in queue : r.proc = s /\ r.id = i
  <2>1. s \in Subs /\ ParentOf[s] = j
    BY <1>2 DEF SubsOf
  <2>2. QED
    BY <1>8, <1>9, <2>1, IdsOfFacts
<1>11. ASSUME NEW s \in SubsOf(j)
       PROVE  Ledger!Front(part[s], avail[s])
  <2>1. part[s] \subseteq avail[s]
    BY <1>1, <1>10
  <2>2. avail[s] # {} => part[s] # {}
    <3>1. \A r \in queue : r.proc = s => \E x \in rows : x.proc = s
      BY <1>1 DEF SubsOf
    <3>2. QED
      BY <1>10, <3>1
  <2>3. ASSUME NEW i \in part[s], NEW k \in avail[s] \ part[s]
        PROVE  i < k
    <3>1. PICK r \in rows : r.proc = s /\ r.id = i
      BY <1>10
    <3>2. PICK x \in queue : x.proc = s /\ x.id = k /\ x \notin rows
      BY <1>10, <2>3
    <3>3. ~(k < i) /\ i # k
      BY <1>1, <2>3, <3>1, <3>2
    <3>4. i \in Nat /\ k \in Nat
      BY <1>1, <3>1, <3>2 DEF Row
    <3>5. QED
      BY <3>3, <3>4
  <2>4. QED
    BY <2>1, <2>2, <2>3 DEF Ledger!Front
<1>12. part \in [Ledger!StepsOf(j) -> SUBSET UNION {avail[s] : s \in Ledger!StepsOf(j)}]
  BY <1>2, <1>11 DEF Ledger!Front
\* The rows after the call: those that stayed, and the taken ones, claimed.
<1>13. /\ \A x \in bcq' : x \in queue \ rows
                            \/ \E y \in rows : x.proc = y.proc /\ x.id = y.id /\ Claimed(x)
       /\ \A x \in queue \ rows : x \in bcq'
       /\ \A y \in rows : \E x \in bcq' : x.proc = y.proc /\ x.id = y.id /\ Claimed(x)
  <2>1. \A x \in bcq' : x \in queue \ rows \/ \E y \in rows : SameRow(x, y) /\ Claimed(x)
    BY <1>0, <1>1, ClaimFacts
  <2>2. \A x \in queue \ rows : x \in bcq'
    BY <1>0, <1>1, ClaimFacts
  <2>3. \A y \in rows : \E x \in bcq' : SameRow(x, y) /\ Claimed(x)
    <3> DEFINE b == Len(batches) + 1
    <3>1. b \in Nat /\ bcq' = Claims(queue, rows, b)
      BY <1>0, <1>1
    <3> HIDE DEF b
    <3>2. \A y \in rows : \E x \in Claims(queue, rows, b) :
            SameRow(x, y) /\ x.src = y.src /\ x.tgt = b /\ Claimed(x)
      BY <1>1, <3>1, ClaimFacts
    <3>3. QED
      BY <3>1, <3>2
  <2>4. QED
    BY <2>1, <2>2, <2>3 DEF SameRow
<1>14. ASSUME NEW s \in Subs, NEW i
       PROVE  /\ i \in Taking(bcq')[s] <=> i \in (IF s \in SubsOf(j) THEN part[s] ELSE Taking(bcq)[s])
              /\ i \in Waiting(bcq')[s] <=>
                   i \in (IF s \in SubsOf(j) THEN avail[s] \ part[s] ELSE avail[s])
  <2>1. /\ i \in Taking(bcq')[s] <=> \E r \in bcq' : r.proc = s /\ r.id = i /\ Claimed(r)
        /\ i \in Waiting(bcq')[s] <=> \E r \in bcq' : r.proc = s /\ r.id = i /\ ~Claimed(r)
        /\ i \in Taking(bcq)[s] <=> \E r \in bcq : r.proc = s /\ r.id = i /\ Claimed(r)
    BY SplitFacts
  <2>2. CASE s \in SubsOf(j)
    <3>1. \A r \in queue : r.proc = s => ~Claimed(r)
      BY <1>9, <2>2 DEF SubsOf
    <3>2. (\E r \in bcq' : r.proc = s /\ r.id = i /\ Claimed(r)) <=>
            \E y \in rows : y.proc = s /\ y.id = i
      BY <1>1, <1>13, <3>1
    <3>3. (\E r \in bcq' : r.proc = s /\ r.id = i /\ ~Claimed(r)) <=>
            \E y \in queue \ rows : y.proc = s /\ y.id = i
      BY <1>1, <1>13, <3>1
    <3>4. (\E y \in queue \ rows : y.proc = s /\ y.id = i) <=>
            /\ \E y \in queue : y.proc = s /\ y.id = i
            /\ ~ \E y \in rows : y.proc = s /\ y.id = i
      BY <1>1 DEF NoTwins, SameRow
    <3>5. QED
      BY <1>10, <2>1, <2>2, <3>2, <3>3, <3>4
  <2>3. CASE s \notin SubsOf(j)
    <3>1. \A y \in rows : y.proc # s
      BY <1>1, <2>3 DEF SubsOf
    <3>2. \A r : r.proc = s => (r \in bcq' <=> r \in queue)
      BY <1>1, <1>13, <3>1
    <3>3. \A r : r.proc = s /\ Claimed(r) => (r \in queue <=> r \in bcq)
      BY <1>6
    <3>4. QED
      BY <1>8, <2>1, <2>3, <3>2, <3>3
  <2>4. QED
    BY <2>2, <2>3
<1> HIDE DEF part
<1>15. Taking(bcq)' = [s \in Subs |-> IF s \in Ledger!StepsOf(j) THEN part[s] ELSE Taking(bcq)[s]]
  <2> DEFINE f == [s \in Subs |-> IF s \in SubsOf(j) THEN part[s] ELSE Taking(bcq)[s]]
  <2>1. DOMAIN f = Subs /\ f = [s \in Subs |-> f[s]]
    OBVIOUS
  <2>2. \A s \in Subs : \A i : i \in Taking(bcq')[s] <=> i \in f[s]
    BY <1>14
  <2> HIDE DEF f
  <2>3. Taking(bcq') = f
    BY <2>1, <2>2, SplitForm
  <2>4. QED
    BY <1>2, <2>3, LedgerPrimed DEF f
<1>16. Waiting(bcq)' = [s \in Subs |-> IF s \in Ledger!StepsOf(j) THEN avail[s] \ part[s]
                                       ELSE avail[s]]
  <2> DEFINE f == [s \in Subs |-> IF s \in SubsOf(j) THEN avail[s] \ part[s] ELSE avail[s]]
  <2>1. DOMAIN f = Subs /\ f = [s \in Subs |-> f[s]]
    OBVIOUS
  <2>2. \A s \in Subs : \A i : i \in Waiting(bcq')[s] <=> i \in f[s]
    BY <1>14
  <2> HIDE DEF f
  <2>3. Waiting(bcq') = f
    BY <2>1, <2>2, SplitForm
  <2>4. QED
    BY <1>2, <2>3, LedgerPrimed DEF f
<1>17. j \notin Active /\ Active' = Active \union {j}
  <2>1. j \notin Active /\ execs' = Start(j, Len(execs[j]) + 1)
    BY DEF InitJob, AcceptsInitJob, NotRunning, Active
  <2>2. QED
    BY <1>0, <2>1, ActiveAfterStart
<1>18. \A s \in Ledger!StepsOf(j) : Taking(bcq)[s] = {}
  <2>1. \A s \in SubsOf(j) : s \in Subs /\ \A r \in bcq : r.proc = s => ~Claimed(r)
    BY <1>2, <1>7 DEF SubsOf
  <2>2. QED
    BY <1>2, <2>1, SplitFacts
<1>19. lastId' = Ledger!Counted(S) /\ IdsOf(archive)' = IdsOf(archive)
  BY LedgerPrimed DEF InitJob, FreshRun, CountIds, Ledger!Counted, S
<1>20. \E p \in [Ledger!StepsOf(j) -> SUBSET UNION {avail[s] : s \in Ledger!StepsOf(j)}] :
         /\ \A s \in Ledger!StepsOf(j) : Ledger!Front(p[s], avail[s])
         /\ Taking(bcq)' = [s \in Subs |-> IF s \in Ledger!StepsOf(j) THEN p[s] ELSE Taking(bcq)[s]]
         /\ Waiting(bcq)' = [s \in Subs |-> IF s \in Ledger!StepsOf(j) THEN avail[s] \ p[s]
                                            ELSE avail[s]]
  <2>1. WITNESS part \in [Ledger!StepsOf(j) -> SUBSET UNION {avail[s] : s \in Ledger!StepsOf(j)}]
  <2>2. QED
    BY <1>2, <1>11, <1>15, <1>16
<1>21. QED
  BY <1>3, <1>17, <1>18, <1>19, <1>20 DEF Ledger!Begin, Active, Waiting, Taking, avail

LEMMA LedgerStep == LedgerInv /\ [Next]_vars => [Ledger!Next]_(Ledger!vars)
<1> SUFFICES ASSUME LedgerInv, [Next]_vars
             PROVE  Ledger!Next \/ UNCHANGED Ledger!vars
  OBVIOUS
<1>0. TypeOK
  BY DEF LedgerInv, BatchInv, OrderInv, IdsInv
<1>1. ASSUME UNCHANGED <<Active, lastId, Waiting(bcq), Taking(bcq), IdsOf(archive)>>
      PROVE  UNCHANGED Ledger!vars
  BY <1>1 DEF Ledger!vars, Active, Waiting, Taking
<1>2. ASSUME NEW j \in Jobs, NEW maxBatch \in MaxBatchArgs, InitJob(j, maxBatch)
      PROVE  Ledger!Next
  <2>1. CASE FreshRun(j, maxBatch)
    BY <1>2, <2>1, BeginShown DEF Ledger!Next
  <2>2. CASE Rerun(j)
    BY <1>2, <2>2, AgainShown DEF Ledger!Next
  <2>3. QED
    BY <1>2, <2>1, <2>2 DEF InitJob
<1>3. ASSUME NEW j \in Jobs, HaltJob(j) \/ TermJob(j) \/ BatchEnqueue(j)
      PROVE  Ledger!Next
  BY <1>3, SucceedShown, FailShown, FileShown DEF Ledger!Next
\* The calls of a step show nothing.
<1>4. ASSUME NEW s \in Subs, InitStep(s) \/ HaltStep(s) \/ TermStep(s)
      PROVE  UNCHANGED Ledger!vars
  <2>1. s \in Processes /\ s \notin Jobs /\ Len(execs[ParentOf[s]]) \in Nat
    BY <1>0, ParentFacts, ExecFacts
  <2>2. CASE InitStep(s)
    <3>1. \A k \in Jobs : Running(k)' = Running(k)
      <4>1. PICK n \in Nat : execs' = Start(s, n)
        BY <2>1, <2>2 DEF InitStep
      <4>2. QED
        BY <1>0, <2>1, <4>1, RunningAfterStart DEF Processes
    <3>2. UNCHANGED <<Active, lastId, Waiting(bcq), Taking(bcq), IdsOf(archive)>>
      BY <2>2, <3>1, LedgerPrimed DEF Active, InitStep
    <3>3. QED
      BY <1>1, <3>2
  <2>3. CASE HaltStep(s) \/ TermStep(s)
    <3>1. PICK rows \in SUBSET bcq, i \in Running(s), st \in {"success", "failed"} :
            /\ bcq' = Restated(bcq, rows, "processed") /\ execs' = Finish(s, i, st)
            /\ UNCHANGED <<batches, archive, lastId>>
      BY <1>0, <2>3, StepEffect
    <3>2. \A k \in Jobs : Running(k)' = Running(k)
      BY <1>0, <2>1, <3>1, RunningAfterFinish DEF Processes
    <3>3. Waiting(bcq') = Waiting(bcq) /\ Taking(bcq') = Taking(bcq)
      BY <3>1, RestateHidden DEF BatchState
    <3>4. UNCHANGED <<Active, lastId, Waiting(bcq), Taking(bcq), IdsOf(archive)>>
      BY <3>1, <3>2, <3>3, LedgerPrimed DEF Active
    <3>5. QED
      BY <1>1, <3>4
  <2>4. QED
    BY <1>4, <2>2, <2>3
<1>5. CASE UNCHANGED vars
  <2>1. UNCHANGED <<Active, lastId, Waiting(bcq), Taking(bcq), IdsOf(archive)>>
    BY <1>5, LedgerPrimed DEF vars, Active, Running
  <2>2. QED
    BY <1>1, <2>1
<1>6. QED
  BY <1>2, <1>3, <1>4, <1>5 DEF Next

\* The calls on the tables keep the promise of the ledger: a run takes rows from the
\* front of the queues, they stay with the job through failures, and each is put away
\* once, by a run that succeeds.
THEOREM LedgerKept == Spec => KeepsLedger
<1>1. Init => Ledger!Init
  <2>1. IdsOf({}) = [s \in Subs |-> {}]
    BY DEF IdsOf, RowsOf
  <2>2. SUFFICES ASSUME Init PROVE Ledger!Init
    OBVIOUS
  <2>3. /\ {r \in bcq : ~Claimed(r)} = {} /\ {r \in bcq : Claimed(r)} = {} /\ archive = {}
        /\ lastId = [s \in Subs |-> 0]
    BY <2>2 DEF Init
  <2>4. {j \in Jobs : Running(j) # {}} = {}
    BY <2>2 DEF Init, Running, Processes
  <2>5. QED
    BY <2>1, <2>3, <2>4 DEF Ledger!Init
<1>2. LedgerInv /\ [Next]_vars => [Ledger!Next]_(Ledger!vars)
  BY LedgerStep
<1>3. Spec => []LedgerInv
  BY BatchInvariant, RunsAreNested, PTL DEF LedgerInv
<1>4. QED
  BY <1>1, <1>2, <1>3, PTL DEF Spec, KeepsLedger, Ledger!Spec

=============================================================================
