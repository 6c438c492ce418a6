---------------------- MODULE WorkflowDesignerProofs -----------------------
(* Proofs about the workflow designer and the service behind it, for any    *)
(* number of steps, links and failures; those about what a command leaves   *)
(* behind are for one browser.                                              *)
EXTENDS WorkflowDesigner, FiniteSetTheorems, FunctionTheorems, SequenceTheorems, TLAPS

-----------------------------------------------------------------------------
(***************************************************************************)
(* Lemmas about lists.                                                     *)
(***************************************************************************)
Orders(order, S) ==
  /\ \A x \in S : <<x, x>> \notin order
  /\ \A x, y, z \in S : <<x, y>> \in order /\ <<y, z>> \in order => <<x, z>> \in order
  /\ \A x, y \in S : x # y => <<x, y>> \in order \/ <<y, x>> \in order

\* The elements of a finite set in an order are all of them.
LEMMA InOrderFacts ==
  ASSUME NEW S, IsFiniteSet(S), NEW order, Orders(order, S)
  PROVE  /\ Cardinality(S) \in Nat
         /\ InOrder(S, order) \in [1 .. Cardinality(S) -> S]
         /\ \A x \in S : \E k \in 1 .. Cardinality(S) : InOrder(S, order)[k] = x
<1> DEFINE n == Cardinality(S)
           Below(x) == {y \in S : <<y, x>> \in order}
           f == [x \in S |-> Cardinality(Below(x)) + 1]
<1>1. n \in Nat
  BY FS_CardinalityType
<1>2. ASSUME NEW x \in S
      PROVE  /\ IsFiniteSet(Below(x)) /\ Cardinality(Below(x)) \in Nat
             /\ Cardinality(Below(x)) < n
  <2>1. Below(x) \in SUBSET S /\ x \notin Below(x)
    BY <1>2 DEF Orders
  <2> HIDE DEF Below
  <2>2. /\ IsFiniteSet(Below(x)) /\ Cardinality(Below(x)) <= n
        /\ n = Cardinality(Below(x)) => S = Below(x)
    BY <2>1, FS_Subset
  <2>3. Cardinality(Below(x)) \in Nat
    BY <2>2, FS_CardinalityType
  <2> QED
    BY <1>1, <1>2, <2>1, <2>2, <2>3
<1>3. ASSUME NEW x \in S, NEW y \in S, <<x, y>> \in order
      PROVE  Cardinality(Below(x)) # Cardinality(Below(y))
  <2>1. Below(x) \in SUBSET Below(y) /\ x \in Below(y) /\ x \notin Below(x)
    BY <1>3 DEF Orders
  <2>2. IsFiniteSet(Below(y))
    BY <1>2
  <2> HIDE DEF Below
  <2> QED
    BY <2>1, <2>2, FS_Subset
<1> DEFINE Rank(x) == Cardinality(Below(x))
<1>4. \A x, y \in S : Rank(x) = Rank(y) => x = y
  <2> SUFFICES ASSUME NEW x \in S, NEW y \in S, x # y PROVE Rank(x) # Rank(y)
    OBVIOUS
  <2>1. <<x, y>> \in order \/ <<y, x>> \in order
    BY DEF Orders
  <2> HIDE DEF Below
  <2> QED
    BY <1>3, <2>1
<1>5. \A x \in S : Rank(x) \in Nat /\ Rank(x) < n
  BY <1>2
<1> HIDE DEF Rank, n
<1>6. f \in Injection(S, 1 .. n)
  <2>1. f = [x \in S |-> Rank(x) + 1]
    BY DEF Rank
  <2> HIDE DEF f
  <2>2. f \in [S -> 1 .. n]
    BY <1>1, <1>5, <2>1
  <2>3. \A x, y \in S : f[x] = f[y] => x = y
    BY <1>4, <1>5, <2>1
  <2> QED
    BY <2>2, <2>3, Fun_IsInj
<1>7. f \in Surjection(S, 1 .. n)
  <2>1. IsFiniteSet(1 .. n) /\ Cardinality(1 .. n) = n /\ Cardinality(S) = n
    BY <1>1, FS_Interval DEF n
  <2> HIDE DEF f
  <2> QED
    BY <1>6, <2>1, FS_Injection
<1>8. \A k \in 1 .. n : \E x \in S : Rank(x) = k - 1
  <2>1. f = [x \in S |-> Rank(x) + 1]
    BY DEF Rank
  <2> HIDE DEF f
  <2>2. \A k \in 1 .. n : \E x \in S : f[x] = k
    BY <1>7, Fun_SurjectionProperties
  <2> SUFFICES ASSUME NEW k \in 1 .. n PROVE \E x \in S : Rank(x) = k - 1
    OBVIOUS
  <2>3. PICK x \in S : f[x] = k
    BY <2>2
  <2>4. Rank(x) + 1 = k /\ Rank(x) \in Nat /\ k \in Int
    BY <1>1, <1>5, <2>1, <2>3
  <2>5. Rank(x) = k - 1
    BY <2>4
  <2> QED
    BY <2>5
<1>9. InOrder(S, order) = [k \in 1 .. n |-> CHOOSE x \in S : Rank(x) = k - 1]
  BY DEF InOrder, Rank, n
<1>10. \A k \in 1 .. n : InOrder(S, order)[k] \in S /\ Rank(InOrder(S, order)[k]) = k - 1
  BY <1>8, <1>9
<1>11. InOrder(S, order) \in [1 .. n -> S]
  BY <1>9, <1>10
<1>12. ASSUME NEW x \in S PROVE \E k \in 1 .. n : InOrder(S, order)[k] = x
  <2>1. Rank(x) + 1 \in 1 .. n
    BY <1>1, <1>5
  <2>2. InOrder(S, order)[Rank(x) + 1] \in S /\ Rank(InOrder(S, order)[Rank(x) + 1]) = Rank(x)
    BY <1>5, <1>10, <2>1
  <2> QED
    BY <1>4, <2>1, <2>2
<1> QED
  BY <1>1, <1>11, <1>12 DEF n

\* The elements of a list at some of its places.
LEMMA AtFacts ==
  ASSUME NEW T, NEW list \in Seq(T), NEW places \in SUBSET DOMAIN list
  PROVE  /\ At(list, places) \in Seq(T)
         /\ \A k \in DOMAIN At(list, places) : \E i \in places : At(list, places)[k] = list[i]
         /\ \A i \in places : \E k \in DOMAIN At(list, places) : At(list, places)[k] = list[i]
<1>1. Len(list) \in Nat /\ DOMAIN list = 1 .. Len(list)
  OBVIOUS
<1>2. IsFiniteSet(places)
  <2>1. IsFiniteSet(1 .. Len(list)) /\ places \in SUBSET (1 .. Len(list))
    BY <1>1, FS_Interval
  <2> QED
    BY <2>1, FS_Subset
<1>3. Orders(Before, places)
  BY <1>1 DEF Orders, Before
<1> DEFINE order == InOrder(places, Before)
           n == Cardinality(places)
<1>4. /\ n \in Nat /\ order \in [1 .. n -> places]
      /\ \A i \in places : \E k \in 1 .. n : order[k] = i
  BY <1>2, <1>3, InOrderFacts
<1>5. At(list, places) = [k \in 1 .. n |-> list[order[k]]]
  BY <1>4 DEF At
<1> HIDE DEF order, n
<1>6. \A k \in 1 .. n : order[k] \in places /\ list[order[k]] \in T
  BY <1>4
<1>7. At(list, places) \in Seq(T) /\ DOMAIN At(list, places) = 1 .. n
  BY <1>4, <1>5, <1>6
<1>8. \A k \in 1 .. n : At(list, places)[k] = list[order[k]]
  BY <1>5
<1>9. \A i \in places : \E k \in 1 .. n : At(list, places)[k] = list[i]
  BY <1>4, <1>8
<1> QED
  BY <1>6, <1>7, <1>8, <1>9

\* A list without some element, and without the last of those that are left.
LEMMA WithoutFacts ==
  ASSUME NEW T, NEW list \in Seq(T), NEW x
  PROVE  /\ Without(list, x) \in Seq(T)
         /\ Ids(Without(list, x)) = Ids(list) \ {x}
<1>1. {i \in DOMAIN list : list[i] # x} \in SUBSET DOMAIN list
  OBVIOUS
<1>2. PICK places \in SUBSET DOMAIN list : places = {i \in DOMAIN list : list[i] # x}
  BY <1>1
<1>3. Without(list, x) = At(list, places)
  BY <1>2 DEF Without
<1>4. /\ Without(list, x) \in Seq(T)
      /\ \A k \in DOMAIN Without(list, x) : \E i \in places : Without(list, x)[k] = list[i]
      /\ \A i \in places : \E k \in DOMAIN Without(list, x) : Without(list, x)[k] = list[i]
  BY <1>3, AtFacts
<1> QED
  BY <1>2, <1>4 DEF Ids

LEMMA UnlinkedFacts ==
  ASSUME NEW list \in Lists, NEW to \in Steps
  PROVE  /\ Unlinked(list, to) \in Lists
         /\ Ids(Unlinked(list, to)) \subseteq (Ids(list) \ {to}) \union {NoProcess}
<1> DEFINE T == Steps \union {NoProcess, Parent, Blank}
           others == Without(list, to)
           left == SubSeq(others, 1, Len(others) - 1)
<1>1. others \in Seq(T) /\ Ids(others) = Ids(list) \ {to}
  BY WithoutFacts DEF Lists
<1> HIDE DEF others
<1>2. left \in Seq(T) /\ Ids(left) \subseteq Ids(others)
  BY <1>1 DEF Ids
<1>3. <<NoProcess>> \in Seq(T) /\ Ids(<<NoProcess>>) = {NoProcess}
  BY DEF Ids
<1>4. Unlinked(list, to) = IF left = <<>> THEN <<NoProcess>> ELSE left
  BY DEF Unlinked, others
<1> QED
  BY <1>1, <1>2, <1>3, <1>4 DEF Lists

\* What a list may be when it went through a hash set.
LEMMA JoinedFacts ==
  ASSUME NEW list \in Lists, NEW id \in Steps, NEW new \in Joined(Ids(list) \ {id})
  PROVE  /\ new \in Lists
         /\ Ids(new) \subseteq (Ids(list) \ {id}) \union {Blank}
         /\ id \notin Ids(new)
<1> DEFINE T == Steps \union {NoProcess, Parent, Blank}
           ids == Ids(list) \ {id}
<1>1. list \in Seq(T) /\ Len(list) \in Nat /\ DOMAIN list = 1 .. Len(list) /\ ids \subseteq T
  BY DEF Lists, Ids
<1>2. IsFiniteSet(Ids(list))
  <2>1. list \in Surjection(1 .. Len(list), Ids(list))
    BY <1>1, Fun_IsSurj DEF Ids
  <2> QED
    BY <1>1, <2>1, FS_Interval, FS_Surjection
<1>3. IsFiniteSet(ids) /\ Cardinality(ids) \in Nat
  BY <1>2, FS_Subset, FS_CardinalityType
<1>4. CASE ids = {}
  <2>1. new = <<Blank>>
    BY <1>4 DEF Joined
  <2> QED
    BY <2>1 DEF Lists, Ids, Steps, Blank
<1>5. CASE ids # {}
  <2>1. new \in [1 .. Cardinality(ids) -> ids] /\ Ids(new) = ids
    BY <1>5 DEF Joined
  <2>2. new \in [1 .. Cardinality(ids) -> T]
    BY <1>1, <2>1
  <2>3. new \in Seq(T)
    <3> HIDE DEF ids, T
    <3> QED
      BY <1>3, <2>2
  <2> QED
    BY <2>1, <2>3 DEF Lists
<1> QED
  BY <1>4, <1>5

-----------------------------------------------------------------------------
(***************************************************************************)
(* Lemmas about requests and commands.                                     *)
(***************************************************************************)
LEMMA RequestFacts ==
  ASSUME NEW r \in Requests
  PROVE  /\ r.op \in {"none", "get", "update", "insert", "adopt", "clone", "delete", "reply"}
         /\ r.op = "none" => r = Idle
         /\ r.op = "get" => r.id \in Steps
         /\ r.op = "update" => r.id \in Steps /\ r.next \in Lists
         /\ r.op = "insert" => /\ r.kind \in Kinds /\ r.read \in Lists
         /\ r.op = "adopt" => r.id \in Steps /\ r.read \in Lists
         /\ r.op = "clone" => r.id \in Steps
         /\ r.op = "delete" =>
              /\ r.id \in Steps
              /\ r.todo \in SUBSET [at : Steps \union {Parent}, next : Lists]
              /\ r = [op |-> "delete", id |-> r.id, todo |-> r.todo]
         /\ r.op = "reply" => r.ok \in BOOLEAN /\ r.id \in Steps \union {NoProcess} /\ r.next \in Lists
  BY DEF Requests, Idle

LEMMA RequestsMade ==
  /\ Idle \in Requests
  /\ \A id \in Steps : [op |-> "get", id |-> id] \in Requests
  /\ \A id \in Steps, next \in Lists : [op |-> "update", id |-> id, next |-> next] \in Requests
  /\ \A kind \in Kinds, read \in Lists : [op |-> "insert", kind |-> kind, read |-> read] \in Requests
  /\ \A id \in Steps, read \in Lists : [op |-> "adopt", id |-> id, read |-> read] \in Requests
  /\ \A id \in Steps : [op |-> "clone", id |-> id] \in Requests
  /\ \A id \in Steps, todo \in SUBSET [at : Steps \union {Parent}, next : Lists] :
       [op |-> "delete", id |-> id, todo |-> todo] \in Requests
  /\ \A ok \in BOOLEAN, id \in Steps \union {NoProcess}, next \in Lists :
       [op |-> "reply", ok |-> ok, id |-> id, next |-> next] \in Requests
  BY DEF Requests

LEMMA WorkFacts ==
  ASSUME NEW w \in Work
  PROVE  /\ w.task \in {"none", "add", "duplicate", "details", "show", "draw", "delete"}
         /\ w.task = "none" => w = Free
         /\ w.task = "add" => w.kind \in Kinds
         /\ w.task = "show" => w.id \in Steps
         /\ w.task = "draw" =>
              /\ w.from \in Steps /\ w.to \in Steps /\ w.sent \in {"none", "link"}
              /\ w = [task |-> "draw", from |-> w.from, to |-> w.to, sent |-> w.sent]
         /\ w.task = "delete" =>
              /\ w.nodes \in SUBSET Steps /\ w.left \in SUBSET Nat
              /\ w.gone \in SUBSET Steps /\ w.cut \in SUBSET Nat
              /\ w.sent \in {"none", "node", "link"}
              /\ w = [task |-> "delete", nodes |-> w.nodes, left |-> w.left,
                      gone |-> w.gone, cut |-> w.cut, sent |-> w.sent]
  BY DEF Work, Free

\* A deletion, further on.
LEMMA DeletionChanged ==
  ASSUME NEW w \in Work, w.task = "delete", NEW nodes, NEW sent
  PROVE  [w EXCEPT !.nodes = nodes, !.sent = sent] =
           [task |-> "delete", nodes |-> nodes, left |-> w.left,
            gone |-> w.gone, cut |-> w.cut, sent |-> sent]
<1>1. PICK n, l, g, c, t :
         w = [task |-> "delete", nodes |-> n, left |-> l, gone |-> g, cut |-> c, sent |-> t]
  BY WorkFacts
<1>2. w.nodes = n /\ w.left = l /\ w.gone = g /\ w.cut = c
  BY <1>1
<1>3. PICK x : x = [w EXCEPT !.nodes = nodes]
  OBVIOUS
<1>4. x = [task |-> "delete", nodes |-> nodes, left |-> l, gone |-> g, cut |-> c, sent |-> t]
  BY <1>1, <1>3
<1>5. [x EXCEPT !.sent = sent] =
        [task |-> "delete", nodes |-> nodes, left |-> l, gone |-> g, cut |-> c, sent |-> sent]
  BY <1>4
<1> QED
  BY <1>2, <1>3, <1>5

LEMMA CutChanged ==
  ASSUME NEW w \in Work, w.task = "delete", NEW left, NEW sent
  PROVE  [w EXCEPT !.left = left, !.sent = sent] =
           [task |-> "delete", nodes |-> w.nodes, left |-> left,
            gone |-> w.gone, cut |-> w.cut, sent |-> sent]
<1>1. PICK n, l, g, c, t :
         w = [task |-> "delete", nodes |-> n, left |-> l, gone |-> g, cut |-> c, sent |-> t]
  BY WorkFacts
<1>2. w.nodes = n /\ w.left = l /\ w.gone = g /\ w.cut = c
  BY <1>1
<1>3. PICK x : x = [w EXCEPT !.left = left]
  OBVIOUS
<1>4. x = [task |-> "delete", nodes |-> n, left |-> left, gone |-> g, cut |-> c, sent |-> t]
  BY <1>1, <1>3
<1>5. [x EXCEPT !.sent = sent] =
        [task |-> "delete", nodes |-> n, left |-> left, gone |-> g, cut |-> c, sent |-> sent]
  BY <1>4
<1> QED
  BY <1>2, <1>3, <1>5

LEMMA WorkMade ==
  /\ Free \in Work
  /\ \A kind \in Kinds : [task |-> "add", kind |-> kind] \in Work
  /\ [task |-> "duplicate"] \in Work /\ [task |-> "details"] \in Work
  /\ \A s \in Steps : [task |-> "show", id |-> s] \in Work
  /\ \A from, to \in Steps, sent \in {"none", "link"} :
       [task |-> "draw", from |-> from, to |-> to, sent |-> sent] \in Work
  /\ \A nodes, gone \in SUBSET Steps, left, cut \in SUBSET Nat, sent \in {"none", "node", "link"} :
       [task |-> "delete", nodes |-> nodes, left |-> left,
        gone |-> gone, cut |-> cut, sent |-> sent] \in Work
  BY DEF Work

-----------------------------------------------------------------------------
(***************************************************************************)
(* Lemmas about the table.                                                 *)
(***************************************************************************)
LEMMA RowFacts ==
  ASSUME rows \in Seq(Row), Len(rows) <= MaxSteps
  PROVE  /\ Len(rows) \in Nat /\ DOMAIN rows = 1 .. Len(rows)
         /\ DOMAIN rows \subseteq Steps /\ Live \subseteq DOMAIN rows
         /\ \A s \in DOMAIN rows :
              rows[s].kind \in Kinds /\ rows[s].next \in Lists /\ rows[s].deleted \in BOOLEAN
<1>1. Len(rows) \in Nat /\ DOMAIN rows = 1 .. Len(rows) /\ \A s \in DOMAIN rows : rows[s] \in Row
  OBVIOUS
<1>2. DOMAIN rows \subseteq Steps
  BY <1>1, CatalogAssumption DEF Steps
<1> QED
  BY <1>1, <1>2 DEF Row, Live

\* A row gets another list and flag.
LEMMA RowWritten ==
  ASSUME rows \in Seq(Row), NEW s \in DOMAIN rows, NEW next \in Lists, NEW flag \in BOOLEAN,
         rows' = [rows EXCEPT ![s].next = next, ![s].deleted = flag]
  PROVE  /\ rows' \in Seq(Row) /\ Len(rows') = Len(rows) /\ DOMAIN rows' = DOMAIN rows
         /\ rows'[s].next = next /\ rows'[s].deleted = flag
         /\ \A q \in DOMAIN rows \ {s} : rows'[q] = rows[q]
<1>1. Len(rows) \in Nat /\ DOMAIN rows = 1 .. Len(rows) /\ \A q \in DOMAIN rows : rows[q] \in Row
  OBVIOUS
<1>2. [rows[s] EXCEPT !.next = next, !.deleted = flag] \in Row
  BY <1>1 DEF Row
<1>3. PICK row \in Row : row = [rows[s] EXCEPT !.next = next, !.deleted = flag]
  BY <1>2
<1>4. rows' = [rows EXCEPT ![s] = row]
  BY <1>1, <1>3 DEF Row
<1>6. rows' \in Seq(Row) /\ Len(rows') = Len(rows) /\ DOMAIN rows' = DOMAIN rows
  <2>1. /\ [rows EXCEPT ![s] = row] \in Seq(Row)
        /\ Len([rows EXCEPT ![s] = row]) = Len(rows)
    BY <1>1, ExceptSeq
  <2> QED
    BY <1>4, <2>1
<1>7. rows'[s] = row /\ \A q \in DOMAIN rows \ {s} : rows'[q] = rows[q]
  BY <1>4
<1>8. rows[s] \in Row /\ rows'[s].next = next /\ rows'[s].deleted = flag
  BY <1>1, <1>3, <1>7 DEF Row
<1> QED
  BY <1>6, <1>7, <1>8

\* The list of a row, or of the workflow itself, is written.
LEMMA ListWritten ==
  ASSUME rows \in Seq(Row), starts \in Lists, Len(rows) <= MaxSteps,
         NEW p \in DOMAIN rows \union {Parent}, NEW next \in Lists, Write(p, next)
  PROVE  /\ rows' \in Seq(Row) /\ Len(rows') = Len(rows) /\ DOMAIN rows' = DOMAIN rows
         /\ starts' \in Lists
         /\ \A s \in DOMAIN rows : rows'[s].deleted = rows[s].deleted
         /\ \A q \in DOMAIN rows \union {Parent} : NextOf(q)' = IF q = p THEN next ELSE NextOf(q)
<1>0. \A q \in DOMAIN rows : q # Parent
  BY RowFacts DEF Steps, Parent
<1>1. CASE p = Parent
  BY <1>0, <1>1 DEF Write, NextOf
<1>2. CASE p # Parent
  <2>1. rows' = [rows EXCEPT ![p].next = next] /\ starts' = starts /\ p \in DOMAIN rows
    BY <1>2 DEF Write
  <2>2. rows[p] \in Row /\ rows[p].deleted \in BOOLEAN
    BY <2>1, RowFacts
  <2>3. rows' = [rows EXCEPT ![p].next = next, ![p].deleted = rows[p].deleted]
    BY <2>1, <2>2 DEF Row
  <2>4. /\ rows' \in Seq(Row) /\ Len(rows') = Len(rows) /\ DOMAIN rows' = DOMAIN rows
        /\ rows'[p].next = next /\ rows'[p].deleted = rows[p].deleted
        /\ \A q \in DOMAIN rows \ {p} : rows'[q] = rows[q]
    BY <2>1, <2>2, <2>3, RowWritten
  <2> QED
    BY <1>0, <1>2, <2>1, <2>4 DEF NextOf
<1> QED
  BY <1>1, <1>2

LEMMA RowAdded ==
  ASSUME rows \in Seq(Row), Len(rows) < MaxSteps, NEW row \in Row, rows' = Append(rows, row)
  PROVE  /\ rows' \in Seq(Row) /\ Len(rows') = Len(rows) + 1 /\ Len(rows') <= MaxSteps
         /\ DOMAIN rows' = DOMAIN rows \union {Len(rows) + 1}
         /\ Len(rows) + 1 \in Steps /\ Len(rows) + 1 \notin DOMAIN rows
         /\ rows'[Len(rows) + 1] = row
         /\ \A s \in DOMAIN rows : rows'[s] = rows[s]
  BY CatalogAssumption DEF Steps

-----------------------------------------------------------------------------
(***************************************************************************)
(* Names.  Whatever is on its way in a request, or a command will come to, *)
(* is a step that was made; steps are never taken out of the table.        *)
(***************************************************************************)
KnownRequest(r) ==
  /\ r.op \in {"get", "update", "adopt", "clone", "delete"} => r.id \in DOMAIN rows
  /\ r.op = "reply" /\ r.ok => r.id \in DOMAIN rows
  /\ r.op \in {"update", "reply"} => Known(r.next)
  /\ r.op \in {"insert", "adopt"} => Known(r.read)
  /\ r.op = "delete" => \A n \in r.todo : n.at \in DOMAIN rows \union {Parent} /\ Known(n.next)
KnownWork(w, c) ==
  /\ w.task = "show" => w.id \in DOMAIN rows
  /\ w.task = "draw" => w.from \in DOMAIN rows /\ w.to \in DOMAIN rows
  /\ w.task = "delete" => /\ w.nodes \subseteq w.gone /\ w.gone \subseteq c.nodes
                          /\ w.left \subseteq DOMAIN c.links /\ w.cut \subseteq DOMAIN c.links
KnownChart(c) ==
  /\ c.nodes \subseteq DOMAIN rows /\ c.inputs \subseteq c.nodes /\ c.outputs \subseteq c.nodes
  /\ \A i \in DOMAIN c.links : c.links[i][1] \in c.nodes /\ c.links[i][2] \in c.nodes
KnownRows == Known(starts) /\ \A s \in DOMAIN rows : Known(rows[s].next)
KnownUser(u) ==
  /\ KnownRequest(req[u]) /\ KnownWork(work[u], chart[u]) /\ KnownChart(chart[u])
  /\ \A s \in Steps : Known(cache[u][s].next)
  /\ panel[u].id \in DOMAIN rows \union {NoProcess} /\ Known(panel[u].next)
NamesInv == TypeOK /\ KnownRows /\ \A u \in Users : KnownUser(u)

\* What was known stays known.
LEMMA StaysKnown ==
  ASSUME DOMAIN rows \subseteq DOMAIN rows'
  PROVE  /\ \A list : Known(list) => Known(list)'
         /\ \A r : KnownRequest(r) => KnownRequest(r)'
         /\ \A w, c : KnownWork(w, c) => KnownWork(w, c)'
         /\ \A c : KnownChart(c) => KnownChart(c)'
<1>1. \A list : Known(list) => Known(list)'
  BY DEF Known
<1>2. \A r : KnownRequest(r) => KnownRequest(r)'
  BY <1>1 DEF KnownRequest
<1>3. \A w, c : KnownWork(w, c) => KnownWork(w, c)'
  BY DEF KnownWork
<1>4. \A c : KnownChart(c) => KnownChart(c)'
  BY DEF KnownChart
<1> QED
  BY <1>1, <1>2, <1>3, <1>4

LEMMA RequestMadeBy ==
  ASSUME NEW u \in Users, req \in [Users -> Requests], NEW r \in Requests, Ask(u, r)
  PROVE  /\ req' \in [Users -> Requests] /\ req'[u] = r
         /\ \A v \in Users \ {u} : req'[v] = req[v]
  BY DEF Ask

\* What a step of the service leaves: a table of the same steps and perhaps a new
\* one, every list in it of known steps, and a request or an answer of known steps.
TableOK == rows \in Seq(Row) /\ Len(rows) <= MaxSteps /\ starts \in Lists
Keeps(u) ==
  /\ TableOK' /\ failures' \in 0 .. MaxFailures
  /\ DOMAIN rows \subseteq DOMAIN rows' /\ KnownRows'
  /\ \E r \in Requests : Ask(u, r) /\ KnownRequest(r)'

\* A table in which at most the list of one step, or of the workflow, is new.
LEMMA KnownRowsWritten ==
  ASSUME TableOK, KnownRows, NEW p \in DOMAIN rows \union {Parent}, NEW next \in Lists,
         Known(next), DOMAIN rows' = DOMAIN rows,
         starts' = IF p = Parent THEN next ELSE starts,
         \A q \in DOMAIN rows \ {p} : rows'[q].next = rows[q].next,
         p # Parent => rows'[p].next = next
  PROVE  KnownRows'
<1>1. Known(next)'
  BY StaysKnown
<1>2. Known(starts)'
  <2>1. PICK list : list = starts'
    OBVIOUS
  <2>2. Known(list)
    BY <2>1 DEF KnownRows
  <2>3. Known(list)'
    BY <2>2, StaysKnown
  <2> QED
    BY <2>1, <2>3 DEF Known
<1>3. ASSUME NEW q \in DOMAIN rows PROVE Known(rows[q].next)'
  <2>1. PICK list : list = rows'[q].next
    OBVIOUS
  <2>2. Known(list)
    <3>1. CASE q = p
      <4>1. p # Parent
        BY <1>3, <3>1, RowFacts DEF TableOK, Steps, Parent
      <4> QED
        BY <2>1, <3>1, <4>1
    <3>2. CASE q # p
      BY <1>3, <2>1, <3>2 DEF KnownRows
    <3> QED
      BY <3>1, <3>2
  <2>3. Known(list)'
    BY <2>2, StaysKnown
  <2> QED
    BY <2>1, <2>3 DEF Known
<1> QED
  BY <1>2, <1>3 DEF KnownRows

-----------------------------------------------------------------------------
(***************************************************************************)
(* Every step of the service keeps the names.                              *)
(***************************************************************************)
LEMMA GetKeeps ==
  ASSUME CatalogTypeOK, KnownRows, NEW u \in Users, KnownRequest(req[u]), Get(u)
  PROVE  Keeps(u)
<1>1. req[u] \in Requests /\ req[u].op = "get" /\ req[u].id \in DOMAIN rows
  BY DEF CatalogTypeOK, Get, KnownRequest
<1>2. req[u].id \in Steps /\ rows[req[u].id].next \in Lists /\ Known(rows[req[u].id].next)
  BY <1>1, RowFacts DEF CatalogTypeOK, KnownRows
<1>3. PICK r \in Requests : r = [op |-> "reply", ok |-> TRUE, id |-> req[u].id, next |-> rows[req[u].id].next]
  BY <1>2, RequestsMade
<1>4. Ask(u, r) /\ rows' = rows /\ starts' = starts /\ failures' = failures
  BY <1>3 DEF Get, Answer
<1>5. KnownRequest(r)
  BY <1>1, <1>2, <1>3 DEF KnownRequest
<1>6. KnownRequest(r)' /\ KnownRows'
  BY <1>4, <1>5, StaysKnown DEF KnownRows, Known
<1> QED
  BY <1>4, <1>6 DEF Keeps, TableOK, CatalogTypeOK

LEMMA UpdateKeeps ==
  ASSUME CatalogTypeOK, KnownRows, NEW u \in Users, KnownRequest(req[u]), Update(u)
  PROVE  Keeps(u)
<1>1. /\ req[u] \in Requests /\ req[u].op = "update" /\ req[u].id \in DOMAIN rows
      /\ req[u].id \in Steps /\ req[u].next \in Lists /\ Known(req[u].next)
  BY RequestFacts DEF CatalogTypeOK, Update, KnownRequest
<1>2. CASE Valid(req[u].next)
  <2>1. PICK s \in Steps, next \in Lists : s = req[u].id /\ next = req[u].next
    BY <1>1
  <2>2. PICK r \in Requests : r = [op |-> "reply", ok |-> TRUE, id |-> s, next |-> next]
    BY <2>1, RequestsMade
  <2>3. /\ rows' = [rows EXCEPT ![s].next = next, ![s].deleted = FALSE]
        /\ Ask(u, r) /\ starts' = starts /\ failures' = failures
    BY <1>2, <2>1, <2>2 DEF Update, Answer
  <2>4. /\ rows' \in Seq(Row) /\ Len(rows') = Len(rows) /\ DOMAIN rows' = DOMAIN rows
        /\ rows'[s].next = next /\ \A q \in DOMAIN rows \ {s} : rows'[q] = rows[q]
    BY <1>1, <2>1, <2>3, RowWritten DEF CatalogTypeOK
  <2>5. KnownRows'
    BY <1>1, <2>1, <2>3, <2>4, KnownRowsWritten DEF CatalogTypeOK, TableOK, Steps, Parent
  <2>6. KnownRequest(r)
    BY <1>1, <2>1, <2>2 DEF KnownRequest
  <2>7. KnownRequest(r)'
    BY <2>4, <2>6, StaysKnown
  <2> QED
    BY <2>3, <2>4, <2>5, <2>7 DEF Keeps, TableOK, CatalogTypeOK
<1>3. CASE ~Valid(req[u].next)
  <2>0. <<>> \in Lists
    BY DEF Lists
  <2>1. PICK r \in Requests : r = [op |-> "reply", ok |-> FALSE, id |-> NoProcess, next |-> <<>>]
    BY <2>0, RequestsMade
  <2>2. Ask(u, r) /\ rows' = rows /\ starts' = starts /\ failures' = failures
    BY <1>3, <2>1 DEF Update, Answer
  <2>3. KnownRequest(r)' /\ KnownRows'
    BY <2>1, <2>2 DEF KnownRequest, KnownRows, Known, Ids
  <2> QED
    BY <2>2, <2>3 DEF Keeps, TableOK, CatalogTypeOK
<1> QED
  BY <1>2, <1>3

\* A new step leads to the workflow's end or nowhere: its list is known.
LEMMA KnownRowsAdded ==
  ASSUME TableOK, KnownRows, Len(rows) < MaxSteps, NEW row \in Row,
         row.next \in {<<Parent>>, <<NoProcess>>},
         rows' = Append(rows, row), starts' = starts
  PROVE  TableOK' /\ DOMAIN rows' = DOMAIN rows \union {Len(rows) + 1} /\ KnownRows'
<1>1. /\ rows' \in Seq(Row) /\ Len(rows') <= MaxSteps
      /\ DOMAIN rows' = DOMAIN rows \union {Len(rows) + 1}
      /\ rows'[Len(rows) + 1] = row
      /\ \A s \in DOMAIN rows : rows'[s] = rows[s]
  BY RowAdded DEF TableOK
<1>2. Known(starts)'
  BY <1>1 DEF KnownRows, Known
<1>3. ASSUME NEW q \in DOMAIN rows' PROVE Known(rows[q].next)'
  <2>1. CASE q = Len(rows) + 1
    BY <1>1, <2>1 DEF Known, Ids
  <2>2. CASE q \in DOMAIN rows
    <3>1. rows'[q].next = rows[q].next /\ Known(rows[q].next)
      BY <1>1, <2>2 DEF KnownRows
    <3> QED
      BY <1>1, <3>1 DEF Known
  <2> QED
    BY <1>1, <1>3, <2>1, <2>2
<1> QED
  BY <1>1, <1>2, <1>3 DEF KnownRows, TableOK

LEMMA InsertKeeps ==
  ASSUME CatalogTypeOK, KnownRows, NEW u \in Users, KnownRequest(req[u]), InsertChild(u)
  PROVE  Keeps(u)
<1>1. /\ req[u] \in Requests /\ req[u].op = "insert" /\ req[u].kind \in Kinds
      /\ req[u].read \in Lists /\ Known(req[u].read) /\ Len(rows) < MaxSteps
  BY RequestFacts DEF CatalogTypeOK, InsertChild, KnownRequest
<1>2. PICK new : new = Len(rows) + 1
  OBVIOUS
<1>3. <<Parent>> \in Lists
  BY DEF Lists
<1>4. PICK row \in Row : row = [kind |-> req[u].kind, next |-> <<Parent>>, deleted |-> FALSE]
  BY <1>1, <1>3 DEF Row
<1>5. /\ rows' = Append(rows, row) /\ starts' = starts /\ failures' = failures
  BY <1>4 DEF InsertChild
<1>6. TableOK' /\ DOMAIN rows' = DOMAIN rows \union {new} /\ KnownRows' /\ new \in Steps
  BY <1>1, <1>2, <1>4, <1>5, KnownRowsAdded, RowAdded DEF CatalogTypeOK, TableOK
<1>7. CASE req[u].kind = "source"
  <2>1. PICK r \in Requests : r = [op |-> "adopt", id |-> new, read |-> req[u].read]
    BY <1>1, <1>6, RequestsMade
  <2>2. Ask(u, r)
    BY <1>2, <1>7, <2>1 DEF InsertChild
  <2>3. Known(r.read)
    BY <1>1, <2>1
  <2>4. KnownRequest(r)'
    BY <1>6, <2>1, <2>3 DEF KnownRequest, Known
  <2> QED
    BY <1>5, <1>6, <2>2, <2>4 DEF Keeps, CatalogTypeOK
<1>8. CASE req[u].kind # "source"
  <2>1. PICK r \in Requests : r = [op |-> "reply", ok |-> TRUE, id |-> new, next |-> <<Parent>>]
    BY <1>3, <1>6, RequestsMade
  <2>2. Ask(u, r)
    BY <1>2, <1>8, <2>1 DEF InsertChild, Answer
  <2>3. KnownRequest(r)'
    BY <1>6, <2>1 DEF KnownRequest, Known, Ids
  <2> QED
    BY <1>5, <1>6, <2>2, <2>3 DEF Keeps, CatalogTypeOK
<1> QED
  BY <1>7, <1>8

LEMMA AdoptKeeps ==
  ASSUME CatalogTypeOK, KnownRows, NEW u \in Users, KnownRequest(req[u]), Adopt(u)
  PROVE  Keeps(u)
<1>1. /\ req[u] \in Requests /\ req[u].op = "adopt" /\ req[u].id \in Steps
      /\ req[u].read \in Lists /\ Known(req[u].read) /\ req[u].id \in DOMAIN rows
  BY RequestFacts DEF CatalogTypeOK, Adopt, KnownRequest
<1>2. <<Parent>> \in Lists
  BY DEF Lists
<1>3. PICK r \in Requests : r = [op |-> "reply", ok |-> TRUE, id |-> req[u].id, next |-> <<Parent>>]
  BY <1>1, <1>2, RequestsMade
<1>4. PICK next : next = IF req[u].read = <<NoProcess>> THEN <<req[u].id>>
                         ELSE Append(req[u].read, req[u].id)
  OBVIOUS
<1>5. /\ starts' = next /\ rows' = rows /\ failures' = failures /\ Ask(u, r)
  BY <1>3, <1>4 DEF Adopt, Answer
<1>6. next \in Lists /\ Known(next)
  BY <1>1, <1>4 DEF Lists, Known, Ids
<1>7. KnownRows'
  BY <1>5, <1>6, KnownRowsWritten DEF CatalogTypeOK, TableOK
<1>8. KnownRequest(r)'
  BY <1>1, <1>3, <1>5 DEF KnownRequest, Known, Ids
<1> QED
  BY <1>5, <1>6, <1>7, <1>8 DEF Keeps, TableOK, CatalogTypeOK

LEMMA CloneKeeps ==
  ASSUME CatalogTypeOK, KnownRows, NEW u \in Users, KnownRequest(req[u]), Clone(u)
  PROVE  Keeps(u)
<1>1. /\ req[u] \in Requests /\ req[u].op = "clone" /\ req[u].id \in Steps
      /\ req[u].id \in DOMAIN rows
  BY RequestFacts DEF CatalogTypeOK, Clone, KnownRequest
<1>2. <<NoProcess>> \in Lists /\ <<>> \in Lists
  BY DEF Lists
<1>3. CASE req[u].id \in Live
  <2>1. Len(rows) < MaxSteps /\ rows[req[u].id].kind \in Kinds
    BY <1>1, <1>3, RowFacts DEF Clone, CatalogTypeOK
  <2>2. PICK new : new = Len(rows) + 1
    OBVIOUS
  <2>3. PICK row \in Row : row = [kind |-> rows[req[u].id].kind, next |-> <<NoProcess>>, deleted |-> FALSE]
    BY <1>2, <2>1 DEF Row
  <2>4. /\ rows' = Append(rows, row) /\ starts' = starts /\ failures' = failures
    BY <1>3, <2>3 DEF Clone
  <2>5. TableOK' /\ DOMAIN rows' = DOMAIN rows \union {new} /\ KnownRows' /\ new \in Steps
    BY <2>1, <2>2, <2>3, <2>4, KnownRowsAdded, RowAdded DEF CatalogTypeOK, TableOK
  <2>6. PICK r \in Requests : r = [op |-> "reply", ok |-> TRUE, id |-> new, next |-> <<NoProcess>>]
    BY <1>2, <2>5, RequestsMade
  <2>7. Ask(u, r)
    BY <1>3, <2>2, <2>6 DEF Clone, Answer
  <2>8. KnownRequest(r)'
    BY <2>5, <2>6 DEF KnownRequest, Known, Ids
  <2> QED
    BY <2>4, <2>5, <2>7, <2>8 DEF Keeps, CatalogTypeOK
<1>4. CASE req[u].id \notin Live
  <2>1. PICK r \in Requests : r = [op |-> "reply", ok |-> FALSE, id |-> NoProcess, next |-> <<>>]
    BY <1>2, RequestsMade
  <2>2. Ask(u, r) /\ rows' = rows /\ starts' = starts /\ failures' = failures
    BY <1>4, <2>1 DEF Clone, Answer
  <2>3. KnownRequest(r)' /\ KnownRows'
    BY <2>1, <2>2 DEF KnownRequest, KnownRows, Known, Ids
  <2> QED
    BY <2>2, <2>3 DEF Keeps, TableOK, CatalogTypeOK
<1> QED
  BY <1>3, <1>4

LEMMA RewireKeeps ==
  ASSUME CatalogTypeOK, KnownRows, NEW u \in Users, KnownRequest(req[u]), Rewire(u)
  PROVE  Keeps(u)
<1>1. /\ req[u] \in Requests /\ req[u].op = "delete" /\ req[u].id \in Steps
      /\ req[u].id \in DOMAIN rows
      /\ req[u].todo \in SUBSET [at : Steps \union {Parent}, next : Lists]
      /\ req[u] = [op |-> "delete", id |-> req[u].id, todo |-> req[u].todo]
  BY RequestFacts DEF CatalogTypeOK, Rewire, KnownRequest
<1>a. PICK n \in req[u].todo : \E list \in Joined(Ids(n.next) \ {req[u].id}) :
         Write(n.at, list) /\ Ask(u, [req[u] EXCEPT !.todo = @ \ {n}]) /\ failures' = failures
  BY DEF Rewire
<1>2. PICK list \in Joined(Ids(n.next) \ {req[u].id}) :
         Write(n.at, list) /\ Ask(u, [req[u] EXCEPT !.todo = @ \ {n}]) /\ failures' = failures
  BY <1>a
<1>3. /\ n.at \in DOMAIN rows \union {Parent} /\ n.next \in Lists /\ Known(n.next)
  BY <1>1 DEF KnownRequest
<1>4. list \in Lists /\ Known(list)
  BY <1>1, <1>2, <1>3, JoinedFacts DEF Known
<1>5. PICK p \in DOMAIN rows \union {Parent} : p = n.at
  BY <1>3
<1>6. Parent \notin DOMAIN rows
  BY RowFacts DEF CatalogTypeOK, Steps, Parent
<1>7. /\ rows' \in Seq(Row) /\ Len(rows') = Len(rows) /\ DOMAIN rows' = DOMAIN rows
      /\ starts' \in Lists
      /\ \A q \in DOMAIN rows \union {Parent} : NextOf(q)' = IF q = p THEN list ELSE NextOf(q)
  BY <1>2, <1>4, <1>5, ListWritten DEF CatalogTypeOK
<1>8. KnownRows'
  <2>1. starts' = IF p = Parent THEN list ELSE starts
    BY <1>7 DEF NextOf
  <2>2. \A q \in DOMAIN rows : rows'[q].next = IF q = p THEN list ELSE rows[q].next
    BY <1>6, <1>7 DEF NextOf
  <2> QED
    BY <1>4, <1>5, <1>6, <1>7, <2>1, <2>2, KnownRowsWritten DEF CatalogTypeOK, TableOK
<1>9. PICK r \in Requests : r = [op |-> "delete", id |-> req[u].id, todo |-> req[u].todo \ {n}]
  BY <1>1, RequestsMade
<1>10. Ask(u, r)
  BY <1>1, <1>2, <1>9
<1>11. KnownRequest(r)
  BY <1>1, <1>9 DEF KnownRequest
<1>12. KnownRequest(r)'
  BY <1>7, <1>11, StaysKnown
<1> QED
  BY <1>2, <1>7, <1>8, <1>10, <1>12 DEF Keeps, TableOK, CatalogTypeOK

LEMMA FlagKeeps ==
  ASSUME CatalogTypeOK, KnownRows, NEW u \in Users, KnownRequest(req[u]), Flag(u)
  PROVE  Keeps(u)
<1>1. /\ req[u] \in Requests /\ req[u].op = "delete" /\ req[u].id \in Steps
      /\ req[u].id \in DOMAIN rows
  BY RequestFacts DEF CatalogTypeOK, Flag, KnownRequest
<1>2. <<>> \in Lists
  BY DEF Lists
<1>3. PICK r \in Requests : r = [op |-> "reply", ok |-> TRUE, id |-> req[u].id, next |-> <<>>]
  BY <1>1, <1>2, RequestsMade
<1>4. PICK s \in DOMAIN rows, next \in Lists : s = req[u].id /\ next = rows[s].next
  BY <1>1, RowFacts DEF CatalogTypeOK
<1>5. /\ rows' = [rows EXCEPT ![s].next = next, ![s].deleted = TRUE]
      /\ Ask(u, r) /\ starts' = starts /\ failures' = failures
  <2>1. rows[s] \in Row
    BY DEF CatalogTypeOK
  <2>2. rows' = [rows EXCEPT ![s].deleted = TRUE]
    BY <1>4 DEF Flag
  <2>3. rows' = [rows EXCEPT ![s].next = next, ![s].deleted = TRUE]
    BY <1>4, <2>1, <2>2 DEF Row
  <2> QED
    BY <1>3, <2>3 DEF Flag, Answer
<1>6. /\ rows' \in Seq(Row) /\ Len(rows') = Len(rows) /\ DOMAIN rows' = DOMAIN rows
      /\ rows'[s].next = next /\ \A q \in DOMAIN rows \ {s} : rows'[q] = rows[q]
  BY <1>5, RowWritten DEF CatalogTypeOK
<1>7. KnownRows'
  <2>1. Known(next) /\ s # Parent
    BY <1>4, RowFacts DEF KnownRows, CatalogTypeOK, Steps, Parent
  <2> QED
    BY <1>5, <1>6, <2>1, KnownRowsWritten DEF CatalogTypeOK, TableOK
<1>8. KnownRequest(r)'
  BY <1>1, <1>3, <1>6 DEF KnownRequest, Known, Ids
<1> QED
  BY <1>5, <1>6, <1>7, <1>8 DEF Keeps, TableOK, CatalogTypeOK

LEMMA FailKeeps ==
  ASSUME CatalogTypeOK, KnownRows, NEW u \in Users, Fail(u)
  PROVE  Keeps(u)
<1>1. <<>> \in Lists
  BY DEF Lists
<1>2. PICK r \in Requests : r = [op |-> "reply", ok |-> FALSE, id |-> NoProcess, next |-> <<>>]
  BY <1>1, RequestsMade
<1>3. Ask(u, r) /\ rows' = rows /\ starts' = starts
  BY <1>2 DEF Fail, Answer
<1>4. failures' \in 0 .. MaxFailures
  BY CatalogAssumption DEF Fail, CatalogTypeOK
<1>5. KnownRequest(r)' /\ KnownRows'
  BY <1>2, <1>3 DEF KnownRequest, KnownRows, Known, Ids
<1> QED
  BY <1>3, <1>4, <1>5 DEF Keeps, TableOK, CatalogTypeOK

LEMMA ServiceKeeps ==
  ASSUME CatalogTypeOK, KnownRows, NEW u \in Users, KnownRequest(req[u]), Serve(u) \/ Fail(u)
  PROVE  Keeps(u)
  BY GetKeeps, UpdateKeeps, InsertKeeps, AdoptKeeps, CloneKeeps, RewireKeeps, FlagKeeps, FailKeeps
     DEF Serve

-----------------------------------------------------------------------------
(***************************************************************************)
(* The links a loaded chart draws.                                         *)
(***************************************************************************)
LEMMA ArrowPlacesFacts ==
  ASSUME CatalogTypeOK
  PROVE  /\ IsFiniteSet(ArrowPlaces) /\ Orders(PlaceBefore, ArrowPlaces)
         /\ \A place : place \in ArrowPlaces <=>
              \E s \in Live : \E i \in DOMAIN rows[s].next :
                place = <<s, i>> /\ rows[s].next[i] # Parent
         /\ ArrowPlaces \subseteq Nat \X Nat
<1> DEFINE places(s) == {k \in DOMAIN rows[s].next : rows[s].next[k] # Parent}
           of(s) == {<<s, i>> : i \in places(s)}
<1>1. /\ Len(rows) \in Nat /\ DOMAIN rows = 1 .. Len(rows) /\ DOMAIN rows \subseteq Steps
      /\ Live \in SUBSET DOMAIN rows
      /\ \A s \in DOMAIN rows : rows[s].next \in Lists
  BY RowFacts DEF CatalogTypeOK
<1>2. IsFiniteSet(Live)
  <2>1. IsFiniteSet(1 .. Len(rows)) /\ Live \in SUBSET (1 .. Len(rows))
    BY <1>1, FS_Interval
  <2> QED
    BY <2>1, FS_Subset
<1>3. ASSUME NEW s \in Live PROVE IsFiniteSet(of(s)) /\ of(s) \subseteq Nat \X Nat
  <2>1. rows[s].next \in Lists /\ s \in Nat
    BY <1>1 DEF Steps
  <2>2. PICK n \in Nat : DOMAIN rows[s].next = 1 .. n
    BY <2>1 DEF Lists
  <2>3. IsFiniteSet(1 .. n) /\ places(s) \in SUBSET (1 .. n)
    BY <2>2, FS_Interval
  <2>4. IsFiniteSet(places(s)) /\ places(s) \subseteq Nat
    BY <2>3, FS_Subset
  <2> HIDE DEF places
  <2> DEFINE f == [i \in places(s) |-> <<s, i>>]
  <2>5. f \in Surjection(places(s), of(s))
    BY Fun_IsSurj
  <2> HIDE DEF f
  <2>6. IsFiniteSet(of(s))
    <3> HIDE DEF of
    <3> QED
      BY <2>4, <2>5, FS_Surjection
  <2> QED
    BY <2>1, <2>4, <2>6
<1> DEFINE all == {of(s) : s \in Live}
<1>4. IsFiniteSet(all)
  <2> DEFINE g == [s \in Live |-> of(s)]
  <2>1. g \in Surjection(Live, all)
    <3> HIDE DEF of
    <3> QED
      BY Fun_IsSurj
  <2> HIDE DEF g, all
  <2> QED
    BY <1>2, <2>1, FS_Surjection
<1>5. ArrowPlaces = UNION all
  BY DEF ArrowPlaces
<1>6. IsFiniteSet(ArrowPlaces)
  <2>1. \A T \in all : IsFiniteSet(T)
    BY <1>3
  <2> HIDE DEF all
  <2> QED
    BY <1>4, <1>5, <2>1, FS_UNION
<1>7. \A place : place \in ArrowPlaces <=>
        \E s \in Live : \E i \in DOMAIN rows[s].next :
          place = <<s, i>> /\ rows[s].next[i] # Parent
  BY DEF ArrowPlaces
<1>8. ArrowPlaces \subseteq Nat \X Nat
  <2> HIDE DEF of
  <2> QED
    BY <1>3, <1>5
<1>9. Orders(PlaceBefore, ArrowPlaces)
  <2>1. \A x, y \in Nat \X Nat : <<x, y>> \in PlaceBefore <=>
          x[1] < y[1] \/ (x[1] = y[1] /\ x[2] < y[2])
    BY DEF PlaceBefore
  <2>2. \A x, y \in Nat \X Nat : x # y => x[1] # y[1] \/ x[2] # y[2]
    OBVIOUS
  <2>3. \A x \in Nat \X Nat : x[1] \in Nat /\ x[2] \in Nat
    OBVIOUS
  <2> HIDE DEF PlaceBefore
  <2>4. \A x \in ArrowPlaces : <<x, x>> \notin PlaceBefore
    BY <1>8, <2>1, <2>3
  <2>5. ASSUME NEW x \in ArrowPlaces, NEW y \in ArrowPlaces, NEW z \in ArrowPlaces,
               <<x, y>> \in PlaceBefore, <<y, z>> \in PlaceBefore
        PROVE  <<x, z>> \in PlaceBefore
    <3>1. /\ x \in Nat \X Nat /\ y \in Nat \X Nat /\ z \in Nat \X Nat
          /\ x[1] \in Nat /\ y[1] \in Nat /\ z[1] \in Nat
          /\ x[2] \in Nat /\ y[2] \in Nat /\ z[2] \in Nat
      BY <1>8, <2>3
    <3> QED
      BY <2>1, <2>5, <3>1
  <2>6. ASSUME NEW x \in ArrowPlaces, NEW y \in ArrowPlaces, x # y
        PROVE  <<x, y>> \in PlaceBefore \/ <<y, x>> \in PlaceBefore
    <3>1. /\ x \in Nat \X Nat /\ y \in Nat \X Nat
          /\ x[1] \in Nat /\ y[1] \in Nat /\ x[2] \in Nat /\ y[2] \in Nat
      BY <1>8, <2>3
    <3>2. x[1] # y[1] \/ x[2] # y[2]
      BY <2>2, <2>6, <3>1
    <3> QED
      BY <2>1, <3>1, <3>2
  <2> QED
    BY <2>4, <2>5, <2>6 DEF Orders
<1> QED
  BY <1>6, <1>7, <1>8, <1>9

\* The arrows are the pairs of a live step and an id, not the parent's, in its list.
LEMMA AllArrowsFacts ==
  ASSUME CatalogTypeOK
  PROVE  /\ \E n \in Nat : DOMAIN AllArrows = 1 .. n
         /\ \A k \in DOMAIN AllArrows : \E s \in Live : \E t \in Ids(rows[s].next) \ {Parent} :
              AllArrows[k] = <<s, t>>
         /\ \A s \in Live : \A t \in Ids(rows[s].next) \ {Parent} :
              \E k \in DOMAIN AllArrows : AllArrows[k] = <<s, t>>
<1> DEFINE place == InOrder(ArrowPlaces, PlaceBefore)
           n == Cardinality(ArrowPlaces)
<1>1. /\ n \in Nat /\ place \in [1 .. n -> ArrowPlaces]
      /\ \A x \in ArrowPlaces : \E k \in 1 .. n : place[k] = x
  BY ArrowPlacesFacts, InOrderFacts
<1>2. AllArrows = [k \in 1 .. n |-> <<place[k][1], rows[place[k][1]].next[place[k][2]]>>]
  BY <1>1 DEF AllArrows
<1> HIDE DEF place, n
<1>3. ASSUME NEW k \in 1 .. n
      PROVE  \E s \in Live : \E t \in Ids(rows[s].next) \ {Parent} : AllArrows[k] = <<s, t>>
  <2>1. place[k] \in ArrowPlaces
    BY <1>1
  <2>2. PICK s \in Live : \E i \in DOMAIN rows[s].next :
          place[k] = <<s, i>> /\ rows[s].next[i] # Parent
    BY <2>1, ArrowPlacesFacts
  <2>3. PICK i \in DOMAIN rows[s].next : place[k] = <<s, i>> /\ rows[s].next[i] # Parent
    BY <2>2
  <2>4. AllArrows[k] = <<s, rows[s].next[i]>>
    BY <1>2, <2>3
  <2> QED
    BY <2>3, <2>4 DEF Ids
<1>4. ASSUME NEW s \in Live, NEW t \in Ids(rows[s].next) \ {Parent}
      PROVE  \E k \in 1 .. n : AllArrows[k] = <<s, t>>
  <2>1. PICK i \in DOMAIN rows[s].next : rows[s].next[i] = t
    BY DEF Ids
  <2>2. <<s, i>> \in ArrowPlaces
    BY <2>1, ArrowPlacesFacts
  <2>3. PICK k \in 1 .. n : place[k] = <<s, i>>
    BY <1>1, <2>2
  <2> QED
    BY <1>2, <2>1, <2>3
<1> QED
  BY <1>1, <1>2, <1>3, <1>4

\* A set of places that has every place before one of its own is a prefix.
LEMMA PrefixFacts ==
  ASSUME NEW n \in Nat, NEW D \in SUBSET (1 .. n), \A k \in D : 1 .. k \subseteq D
  PROVE  \E m \in 0 .. n : D = 1 .. m
<1>1. IsFiniteSet(1 .. n) /\ Cardinality(1 .. n) = n
  BY FS_Interval
<1>2. IsFiniteSet(D) /\ Cardinality(D) <= n
  BY <1>1, FS_Subset
<1>3. PICK m \in Nat : m = Cardinality(D)
  BY <1>2, FS_CardinalityType
<1>4. ASSUME NEW k \in D PROVE k <= m
  <2>1. k \in 1 .. n /\ IsFiniteSet(1 .. k) /\ Cardinality(1 .. k) = k
    BY FS_Interval
  <2>2. 1 .. k \in SUBSET D
    OBVIOUS
  <2>3. Cardinality(1 .. k) <= Cardinality(D)
    BY <1>2, <2>2, FS_Subset
  <2> QED
    BY <1>3, <2>1, <2>3
<1>5. D \in SUBSET (1 .. m)
  BY <1>4
<1>6. IsFiniteSet(1 .. m) /\ Cardinality(1 .. m) = m
  BY FS_Interval
<1>7. D = 1 .. m
  BY <1>3, <1>5, <1>6, FS_Subset
<1> QED
  BY <1>2, <1>3, <1>7

LEMMA LeastFacts ==
  ASSUME NEW n \in Nat, NEW S \in SUBSET (1 .. n), S # {}
  PROVE  \E i \in S : \A k \in S : i <= k
<1> DEFINE D == {k \in 1 .. n : \A i \in S : k < i}
<1>1. PICK m \in 0 .. n : D = 1 .. m
  <2>1. D \in SUBSET (1 .. n) /\ \A k \in D : 1 .. k \subseteq D
    OBVIOUS
  <2> HIDE DEF D
  <2> QED
    BY <2>1, PrefixFacts
<1>2. \A i \in S : m < i
  BY <1>1
<1>3. m + 1 \in 1 .. n /\ m + 1 \notin D
  <2>1. PICK x \in S : x \in 1 .. n /\ m < x
    BY <1>2
  <2>2. m + 1 \in 1 .. n /\ m + 1 \notin 1 .. m
    BY <2>1
  <2> HIDE DEF D
  <2> QED
    BY <1>1, <2>2
<1>4. PICK i \in S : ~(m + 1 < i)
  BY <1>3
<1> QED
  BY <1>2, <1>4

\* What is drawn is a link of the table between live steps; if nothing threw, every
\* arrow is drawn.
LEMMA DrawnArrowsFacts ==
  ASSUME CatalogTypeOK
  PROVE  /\ DrawnArrows \in Seq(Link)
         /\ \A i \in DOMAIN DrawnArrows : DrawnArrows[i][1] \in Live /\ DrawnArrows[i][2] \in Live
         /\ DOMAIN DrawnArrows = DOMAIN AllArrows =>
              \A s \in Live : \A t \in Ids(rows[s].next) \ {Parent} :
                \E i \in DOMAIN DrawnArrows : DrawnArrows[i] = <<s, t>>
<1> DEFINE D == {k \in DOMAIN AllArrows : \A n \in 1 .. k : CanDraw(AllArrows[n])}
<1>1. PICK n \in Nat : DOMAIN AllArrows = 1 .. n
  BY AllArrowsFacts
<1>2. PICK m \in 0 .. n : D = 1 .. m
  <2>1. D \in SUBSET (1 .. n)
    BY <1>1
  <2>2. ASSUME NEW k \in D, NEW j \in 1 .. k PROVE j \in D
    <3>1. k \in 1 .. n /\ \A i \in 1 .. k : CanDraw(AllArrows[i])
      BY <1>1
    <3>2. j \in 1 .. n /\ \A i \in 1 .. j : i \in 1 .. k
      BY <3>1
    <3> QED
      BY <1>1, <3>1, <3>2
  <2> HIDE DEF D
  <2> QED
    BY <2>1, <2>2, PrefixFacts
<1>3. DrawnArrows = [i \in 1 .. m |-> AllArrows[i]]
  BY <1>2 DEF DrawnArrows
<1>4. ASSUME NEW i \in 1 .. m
      PROVE  AllArrows[i] \in Link /\ AllArrows[i][1] \in Live /\ AllArrows[i][2] \in Live
  <2>1. i \in DOMAIN AllArrows /\ CanDraw(AllArrows[i])
    BY <1>2
  <2>2. PICK s \in Live : \E t \in Ids(rows[s].next) \ {Parent} : AllArrows[i] = <<s, t>>
    BY <2>1, AllArrowsFacts
  <2>3. AllArrows[i][1] = s /\ AllArrows[i][2] \in Live /\ AllArrows[i] = <<s, AllArrows[i][2]>>
    BY <2>1, <2>2 DEF CanDraw
  <2>4. Live \subseteq Steps
    BY RowFacts DEF CatalogTypeOK
  <2> QED
    BY <2>3, <2>4 DEF Link
<1>5. DrawnArrows \in Seq(Link)
  BY <1>3, <1>4
<1>6. ASSUME DOMAIN DrawnArrows = DOMAIN AllArrows, NEW s \in Live,
             NEW t \in Ids(rows[s].next) \ {Parent}
      PROVE  \E i \in DOMAIN DrawnArrows : DrawnArrows[i] = <<s, t>>
  <2>1. PICK k \in DOMAIN AllArrows : AllArrows[k] = <<s, t>>
    BY AllArrowsFacts
  <2> QED
    BY <1>3, <1>6, <2>1
<1> QED
  BY <1>3, <1>4, <1>5, <1>6

-----------------------------------------------------------------------------
(***************************************************************************)
(* Every step of a browser keeps the names.                                *)
(***************************************************************************)
LEMMA BrowserKeeps ==
  ASSUME NamesInv, NEW u \in Users, rows' = rows, starts' = starts, failures' = failures,
         req' = req \/ \E r \in Requests : Ask(u, r) /\ KnownRequest(r),
         \/ chart' = chart
         \/ \E c \in Chart : chart' = [chart EXCEPT ![u] = c] /\ KnownChart(c),
         \/ cache' = cache
         \/ \E k \in [Steps -> Record \union {NoRecord}] :
              cache' = [cache EXCEPT ![u] = k] /\ \A s \in Steps : Known(k[s].next),
         \/ panel' = panel
         \/ \E p \in [id : Steps \union {NoProcess}, next : Lists] :
              /\ panel' = [panel EXCEPT ![u] = p]
              /\ p.id \in DOMAIN rows \union {NoProcess} /\ Known(p.next),
         work' = work \/ \E w \in Work : Busy(u, w),
         KnownWork(work'[u], chart'[u])
  PROVE  NamesInv'
<1>1. /\ req \in [Users -> Requests] /\ chart \in [Users -> Chart]
      /\ cache \in [Users -> [Steps -> Record \union {NoRecord}]]
      /\ panel \in [Users -> [id : Steps \union {NoProcess}, next : Lists]]
      /\ work \in [Users -> Work]
  BY DEF NamesInv, TypeOK, CatalogTypeOK, DesignerTypeOK
<1>2. \A v \in Users : KnownUser(v)
  BY DEF NamesInv
<1>3. /\ req' \in [Users -> Requests] /\ KnownRequest(req'[u])
      /\ \A v \in Users \ {u} : req'[v] = req[v]
  <2>1. CASE req' = req
    BY <1>1, <1>2, <2>1 DEF KnownUser
  <2>2. CASE \E r \in Requests : Ask(u, r) /\ KnownRequest(r)
    BY <1>1, <2>2 DEF Ask
  <2> QED
    BY <2>1, <2>2
<1>4. /\ chart' \in [Users -> Chart] /\ KnownChart(chart'[u])
      /\ \A v \in Users \ {u} : chart'[v] = chart[v]
  BY <1>1, <1>2 DEF KnownUser
<1>5. /\ cache' \in [Users -> [Steps -> Record \union {NoRecord}]]
      /\ \A s \in Steps : Known(cache'[u][s].next)
      /\ \A v \in Users \ {u} : cache'[v] = cache[v]
  BY <1>1, <1>2 DEF KnownUser
<1>6. /\ panel' \in [Users -> [id : Steps \union {NoProcess}, next : Lists]]
      /\ panel'[u].id \in DOMAIN rows \union {NoProcess} /\ Known(panel'[u].next)
      /\ \A v \in Users \ {u} : panel'[v] = panel[v]
  BY <1>1, <1>2 DEF KnownUser
<1>7. work' \in [Users -> Work] /\ \A v \in Users \ {u} : work'[v] = work[v]
  BY <1>1 DEF Busy
<1>8. ASSUME NEW v \in Users PROVE KnownUser(v)'
  <2>1. PICK r, w, c, k, p : r = req'[v] /\ w = work'[v] /\ c = chart'[v] /\ k = cache'[v] /\ p = panel'[v]
    OBVIOUS
  <2>2. /\ KnownRequest(r) /\ KnownWork(w, c) /\ KnownChart(c)
        /\ \A s \in Steps : Known(k[s].next)
        /\ p.id \in DOMAIN rows \union {NoProcess} /\ Known(p.next)
    <3>1. CASE v = u
      BY <1>3, <1>4, <1>5, <1>6, <2>1, <3>1
    <3>2. CASE v # u
      BY <1>2, <1>3, <1>4, <1>5, <1>6, <1>7, <2>1, <3>2 DEF KnownUser
    <3> QED
      BY <3>1, <3>2
  <2>3. KnownRequest(r)' /\ KnownWork(w, c)' /\ KnownChart(c)' /\ \A list : Known(list) => Known(list)'
    BY <2>2, StaysKnown
  <2>4. KnownRequest(req[v])' /\ KnownWork(work[v], chart[v])' /\ KnownChart(chart[v])'
    BY <2>1, <2>3 DEF KnownRequest, KnownWork, KnownChart, Known
  <2>5. ASSUME NEW s \in Steps PROVE Known(cache[v][s].next)'
    BY <2>1, <2>2, <2>3 DEF Known
  <2>6. Known(panel[v].next)' /\ panel'[v].id \in DOMAIN rows' \union {NoProcess}
    BY <2>1, <2>2, <2>3 DEF Known
  <2> QED
    BY <2>4, <2>5, <2>6 DEF KnownUser
<1>9. KnownRows'
  BY DEF NamesInv, KnownRows, Known
<1> QED
  BY <1>3, <1>4, <1>5, <1>6, <1>7, <1>8, <1>9 DEF NamesInv, TypeOK, CatalogTypeOK, DesignerTypeOK

LEMMA UserFacts ==
  ASSUME NamesInv, NEW u \in Users
  PROVE  /\ req[u] \in Requests /\ chart[u] \in Chart /\ work[u] \in Work
         /\ cache[u] \in [Steps -> Record \union {NoRecord}]
         /\ panel[u] \in [id : Steps \union {NoProcess}, next : Lists]
         /\ KnownUser(u) /\ KnownRows /\ CatalogTypeOK /\ DesignerTypeOK
         /\ DOMAIN rows \subseteq Steps /\ Live \subseteq DOMAIN rows
  BY RowFacts DEF NamesInv, TypeOK, CatalogTypeOK, DesignerTypeOK

LEMMA ChartFacts ==
  ASSUME NEW c \in Chart
  PROVE  /\ c.nodes \in SUBSET Steps /\ c.inputs \in SUBSET Steps /\ c.outputs \in SUBSET Steps
         /\ c.links \in Seq(Link) /\ c.whole \in BOOLEAN
         /\ c = [nodes |-> c.nodes, inputs |-> c.inputs, outputs |-> c.outputs,
                 links |-> c.links, whole |-> c.whole]
  BY DEF Chart

\* A request of a browser goes out, is answered, or none is.
LEMMA IdleKnown == Idle \in Requests /\ KnownRequest(Idle)
  BY RequestsMade DEF Idle, KnownRequest

LEMMA FreeKnown == Free \in Work /\ \A c : KnownWork(Free, c)
  BY WorkMade DEF Free, KnownWork

LEMMA NoPanelKnown ==
  /\ NoPanel \in [id : Steps \union {NoProcess}, next : Lists]
  /\ NoPanel.id = NoProcess /\ Known(NoPanel.next)
<1>1. <<>> \in Lists
  BY DEF Lists
<1>2. Known(<<>>)
  BY DEF Known, Ids
<1> QED
  BY <1>1, <1>2 DEF NoPanel

\* The cache with one record kept in it, or forgotten.
LEMMA KeepKnown ==
  ASSUME NamesInv, NEW u \in Users, NEW s \in Steps, NEW rec \in Record \union {NoRecord},
         Known(rec.next), cache' = [cache EXCEPT ![u][s] = rec]
  PROVE  \E k \in [Steps -> Record \union {NoRecord}] :
           cache' = [cache EXCEPT ![u] = k] /\ \A q \in Steps : Known(k[q].next)
<1>1. PICK k : k = [cache[u] EXCEPT ![s] = rec]
  OBVIOUS
<1>2. cache[u] \in [Steps -> Record \union {NoRecord}] /\ \A q \in Steps : Known(cache[u][q].next)
  BY UserFacts DEF KnownUser
<1>3. k \in [Steps -> Record \union {NoRecord}] /\ \A q \in Steps : Known(k[q].next)
  BY <1>1, <1>2
<1>4. cache' = [cache EXCEPT ![u] = k]
  BY <1>1
<1> QED
  BY <1>3, <1>4

LEMMA AnswerKept ==
  ASSUME NamesInv, NEW u \in Users, req[u].op = "reply", req[u].ok, KeepAnswer(u)
  PROVE  \E k \in [Steps -> Record \union {NoRecord}] :
           cache' = [cache EXCEPT ![u] = k] /\ \A q \in Steps : Known(k[q].next)
<1>1. req[u].id \in DOMAIN rows /\ req[u].id \in Steps /\ req[u].next \in Lists /\ Known(req[u].next)
  BY UserFacts, RequestFacts DEF KnownUser, KnownRequest
<1>2. PICK rec \in Record : rec = [next |-> req[u].next, text |-> TRUE]
  BY <1>1 DEF Record
<1>3. cache' = [cache EXCEPT ![u][req[u].id] = rec] /\ Known(rec.next)
  BY <1>1, <1>2 DEF KeepAnswer, Keep
<1> QED
  BY <1>1, <1>3, KeepKnown

LEMMA OpenKeeps ==
  ASSUME NamesInv, NEW u \in Users, Open(u)
  PROVE  NamesInv'
<1>1. CatalogTypeOK /\ KnownRows /\ DOMAIN rows \subseteq Steps /\ Live \subseteq DOMAIN rows
  BY UserFacts
<1>2. \E c \in Chart : chart' = [chart EXCEPT ![u] = c] /\ KnownChart(c)
  <2>1. PICK c : c = [nodes |-> Live, inputs |-> {s \in Live : HasInput(s)},
        outputs |-> {s \in Live : HasOutput(s)}, links |-> DrawnArrows,
        whole |-> DOMAIN DrawnArrows = DOMAIN AllArrows]
    OBVIOUS
  <2>2. c \in Chart
    BY <1>1, <2>1, DrawnArrowsFacts DEF Chart
  <2>3. KnownChart(c)
    BY <1>1, <2>1, DrawnArrowsFacts DEF KnownChart
  <2> QED
    BY <2>1, <2>2, <2>3 DEF Open
<1>3. \E k \in [Steps -> Record \union {NoRecord}] :
         cache' = [cache EXCEPT ![u] = k] /\ \A s \in Steps : Known(k[s].next)
  <2>1. PICK k : k = [s \in Steps |-> IF s \in Live THEN [next |-> rows[s].next, text |-> TRUE]
                                      ELSE NoRecord]
    OBVIOUS
  <2>2. \A s \in Live : rows[s].next \in Lists /\ Known(rows[s].next)
    BY <1>1, RowFacts DEF CatalogTypeOK, KnownRows
  <2>3. k \in [Steps -> Record \union {NoRecord}]
    BY <2>1, <2>2 DEF Record
  <2>4. Known(NoRecord.next)
    BY DEF Known, NoRecord, Ids
  <2>5. \A s \in Steps : Known(k[s].next)
    BY <2>1, <2>2, <2>4
  <2> QED
    BY <2>1, <2>3, <2>5 DEF Open
<1>4. \E p \in [id : Steps \union {NoProcess}, next : Lists] :
        /\ panel' = [panel EXCEPT ![u] = p]
        /\ p.id \in DOMAIN rows \union {NoProcess} /\ Known(p.next)
  BY NoPanelKnown DEF Open
<1>5. KnownWork(work'[u], chart'[u]) /\ work' = work
  BY FreeKnown DEF Open, AtRest
<1> QED
  BY <1>2, <1>3, <1>4, <1>5, BrowserKeeps DEF Open

LEMMA AddNewNodeKeeps ==
  ASSUME NamesInv, NEW u \in Users, NEW kind \in Kinds, AddNewNode(u, kind)
  PROVE  NamesInv'
<1>1. starts \in Lists /\ Known(starts) /\ work \in [Users -> Work]
  BY UserFacts DEF CatalogTypeOK, DesignerTypeOK, KnownRows
<1>2. PICK r \in Requests : r = [op |-> "insert", kind |-> kind, read |-> starts]
  BY <1>1, RequestsMade
<1>3. Ask(u, r) /\ KnownRequest(r)
  BY <1>1, <1>2 DEF AddNewNode, KnownRequest
<1>4. PICK w \in Work : w = [task |-> "add", kind |-> kind]
  BY WorkMade
<1>5. Busy(u, w) /\ KnownWork(work'[u], chart'[u])
  BY <1>1, <1>4 DEF AddNewNode, Busy, KnownWork
<1> QED
  BY <1>3, <1>5, BrowserKeeps DEF AddNewNode

LEMMA DuplicateKeeps ==
  ASSUME NamesInv, NEW u \in Users, NEW s \in Steps, DuplicateSelected(u, s)
  PROVE  NamesInv'
<1>1. s \in DOMAIN rows /\ work \in [Users -> Work]
  BY UserFacts DEF DesignerTypeOK, KnownUser, KnownChart, DuplicateSelected
<1>2. PICK r \in Requests : r = [op |-> "clone", id |-> s]
  BY RequestsMade
<1>3. Ask(u, r) /\ KnownRequest(r)
  BY <1>1, <1>2 DEF DuplicateSelected, KnownRequest
<1>4. PICK w \in Work : w = [task |-> "duplicate"]
  BY WorkMade
<1>5. Busy(u, w) /\ KnownWork(work'[u], chart'[u])
  BY <1>1, <1>4 DEF DuplicateSelected, Busy, KnownWork
<1> QED
  BY <1>3, <1>5, BrowserKeeps DEF DuplicateSelected

LEMMA NodeAddedKeeps ==
  ASSUME NamesInv, NEW u \in Users, NodeAdded(u)
  PROVE  NamesInv'
<1>1. work \in [Users -> Work] /\ work' = [work EXCEPT ![u] = Free]
  BY UserFacts DEF DesignerTypeOK, NodeAdded, Done, Busy
<1>2. KnownWork(work'[u], chart'[u]) /\ \E w \in Work : Busy(u, w)
  BY <1>1, FreeKnown DEF Busy
<1>3. \E r \in Requests : Ask(u, r) /\ KnownRequest(r)
  BY IdleKnown DEF NodeAdded, Done
<1>4. CASE ~req[u].ok
  BY <1>2, <1>3, <1>4, BrowserKeeps DEF NodeAdded
<1>5. CASE req[u].ok
  <2>1. req[u].id \in DOMAIN rows /\ req[u].id \in Steps
    BY <1>5, UserFacts DEF NodeAdded, KnownUser, KnownRequest
  <2>2. PICK input \in BOOLEAN, output \in BOOLEAN : AddNode(u, req[u].id, input, output)
    BY <1>5 DEF NodeAdded
  <2>3. PICK c : c = [chart[u] EXCEPT !.nodes = @ \union {req[u].id},
                         !.inputs = IF input THEN @ \union {req[u].id} ELSE @,
                         !.outputs = IF output THEN @ \union {req[u].id} ELSE @]
    OBVIOUS
  <2>4. chart[u] \in Chart /\ KnownChart(chart[u])
    BY UserFacts DEF KnownUser
  <2>5. /\ c.nodes = chart[u].nodes \union {req[u].id} /\ c.links = chart[u].links
        /\ c.inputs \subseteq chart[u].inputs \union {req[u].id}
        /\ c.outputs \subseteq chart[u].outputs \union {req[u].id}
    BY <2>3, <2>4 DEF Chart
  <2>6. c \in Chart
    BY <2>1, <2>3, <2>4 DEF Chart
  <2>7. KnownChart(c)
    BY <2>1, <2>4, <2>5 DEF KnownChart
  <2>8. chart' = [chart EXCEPT ![u] = c]
    BY <2>2, <2>3 DEF AddNode
  <2>9. \/ cache' = cache
        \/ \E k \in [Steps -> Record \union {NoRecord}] :
             cache' = [cache EXCEPT ![u] = k] /\ \A s \in Steps : Known(k[s].next)
    BY <1>5, AnswerKept DEF NodeAdded
  <2> QED
    BY <1>2, <1>3, <2>6, <2>7, <2>8, <2>9, BrowserKeeps DEF NodeAdded
<1> QED
  BY <1>4, <1>5

\* What a command wants a record of, is a step that was made.
LEMMA CutFacts ==
  ASSUME NamesInv, NEW u \in Users, Cutting(u)
  PROVE  /\ NextCut(u) \in work[u].left /\ NextCut(u) \in DOMAIN chart[u].links
         /\ chart[u].links[NextCut(u)] \in Link
         /\ chart[u].links[NextCut(u)][1] \in chart[u].nodes
         /\ chart[u].links[NextCut(u)][2] \in chart[u].nodes
<1>1. /\ work[u].left # {} /\ work[u].left \subseteq DOMAIN chart[u].links
      /\ chart[u].links \in Seq(Link) /\ KnownChart(chart[u])
  BY UserFacts, ChartFacts DEF Cutting, KnownUser, KnownWork
<1>2. PICK n \in Nat : DOMAIN chart[u].links = 1 .. n
  BY <1>1
<1>3. work[u].left \in SUBSET (1 .. n)
  BY <1>1, <1>2
<1>4. \E i \in work[u].left : \A k \in work[u].left : i <= k
  BY <1>1, <1>3, LeastFacts
<1>5. NextCut(u) \in work[u].left
  BY <1>4 DEF NextCut
<1> QED
  BY <1>1, <1>5 DEF KnownChart

LEMMA WantedFacts ==
  ASSUME NamesInv, NEW u \in Users, Wanted(u) # NoProcess
  PROVE  Wanted(u) \in DOMAIN rows /\ Wanted(u) \in Steps
<1>1. KnownWork(work[u], chart[u]) /\ KnownChart(chart[u]) /\ DOMAIN rows \subseteq Steps
  BY UserFacts DEF KnownUser
<1>2. CASE work[u].task = "show"
  BY <1>1, <1>2 DEF Wanted, Cutting, KnownWork
<1>3. CASE work[u].task = "draw" /\ work[u].sent = "none"
  BY <1>1, <1>3 DEF Wanted, Cutting, KnownWork
<1>4. CASE Cutting(u)
  <2>1. Wanted(u) = chart[u].links[NextCut(u)][1]
    BY <1>4 DEF Wanted, Cutting
  <2> QED
    BY <1>1, <1>4, <2>1, CutFacts DEF KnownChart
<1> QED
  BY <1>2, <1>3, <1>4 DEF Wanted

LEMMA FetchKeeps ==
  ASSUME NamesInv, NEW u \in Users, Fetch(u)
  PROVE  NamesInv'
<1>1. Wanted(u) \in DOMAIN rows /\ Wanted(u) \in Steps
  BY WantedFacts DEF Fetch
<1>2. PICK r \in Requests : r = [op |-> "get", id |-> Wanted(u)]
  BY <1>1, RequestsMade
<1>3. Ask(u, r) /\ KnownRequest(r)
  BY <1>1, <1>2 DEF Fetch, KnownRequest
<1>4. KnownWork(work'[u], chart'[u])
  BY UserFacts DEF Fetch, KnownUser
<1> QED
  BY <1>3, <1>4, BrowserKeeps DEF Fetch

\* The next of the links to be removed.
LEMMA SkipCutFacts ==
  ASSUME NamesInv, NEW u \in Users, SkipCut(u), work[u].task = "delete",
         NEW c, KnownWork(work[u], c)
  PROVE  \E w \in Work : Busy(u, w) /\ work'[u] = w /\ KnownWork(w, c)
<1>1. /\ work \in [Users -> Work] /\ work[u] \in Work
      /\ work[u].nodes \in SUBSET Steps /\ work[u].left \in SUBSET Nat
      /\ work[u].gone \in SUBSET Steps /\ work[u].cut \in SUBSET Nat
      /\ work[u] = [task |-> "delete", nodes |-> work[u].nodes, left |-> work[u].left,
                    gone |-> work[u].gone, cut |-> work[u].cut, sent |-> work[u].sent]
  BY UserFacts, WorkFacts DEF DesignerTypeOK
<1>2. PICK left \in SUBSET Nat : left = work[u].left \ {NextCut(u)}
  BY <1>1
<1>3. PICK w \in Work : w = [task |-> "delete", nodes |-> work[u].nodes, left |-> left,
                             gone |-> work[u].gone, cut |-> work[u].cut, sent |-> "none"]
  BY <1>1, WorkMade
<1>4. Busy(u, w)
  <2>1. [work[u] EXCEPT !.left = left, !.sent = "none"] =
          [task |-> "delete", nodes |-> work[u].nodes, left |-> left,
           gone |-> work[u].gone, cut |-> work[u].cut, sent |-> "none"]
    <3>1. work[u] \in Work /\ work[u].task = "delete"
      BY <1>1
    <3> QED
      BY <3>1, CutChanged
  <2> QED
    BY <1>2, <1>3, <2>1 DEF SkipCut
<1>5. KnownWork(w, c)
  BY <1>2, <1>3 DEF KnownWork
<1> QED
  BY <1>1, <1>4, <1>5 DEF Busy

LEMMA FetchedKeeps ==
  ASSUME NamesInv, NEW u \in Users, Fetched(u)
  PROVE  NamesInv'
<1>1. \E r \in Requests : Ask(u, r) /\ KnownRequest(r)
  BY IdleKnown DEF Fetched
<1>2. CASE req[u].ok
  <2>1. \E k \in [Steps -> Record \union {NoRecord}] :
          cache' = [cache EXCEPT ![u] = k] /\ \A q \in Steps : Known(k[q].next)
    BY <1>2, AnswerKept DEF Fetched
  <2>2. work' = work /\ chart' = chart /\ KnownWork(work'[u], chart'[u])
    BY <1>2, UserFacts DEF Fetched, KnownUser
  <2> QED
    BY <1>1, <2>1, <2>2, BrowserKeeps DEF Fetched
<1>3. CASE ~req[u].ok /\ work[u].task # "delete"
  <2>1. work' = [work EXCEPT ![u] = Free] /\ chart' = chart /\ cache' = cache
    BY <1>3 DEF Fetched, Busy
  <2>2. KnownWork(work'[u], chart'[u]) /\ \E w \in Work : Busy(u, w)
    BY <2>1, FreeKnown, UserFacts DEF Busy, DesignerTypeOK
  <2> QED
    BY <1>1, <2>1, <2>2, BrowserKeeps DEF Fetched
<1>4. CASE ~req[u].ok /\ work[u].task = "delete"
  <2>1. PICK c : c = [chart[u] EXCEPT !.whole = FALSE]
    OBVIOUS
  <2>2. c \in Chart /\ c.nodes = chart[u].nodes /\ c.links = chart[u].links
        /\ c.inputs = chart[u].inputs /\ c.outputs = chart[u].outputs
    BY <2>1, UserFacts DEF Chart
  <2>3. KnownChart(c) /\ KnownWork(work[u], c)
    BY <2>2, UserFacts DEF KnownUser, KnownChart, KnownWork
  <2>4. chart' = [chart EXCEPT ![u] = c] /\ chart'[u] = c /\ cache' = cache /\ SkipCut(u)
    BY <1>4, <2>1, UserFacts DEF Fetched, DesignerTypeOK
  <2>5. PICK w \in Work : Busy(u, w) /\ work'[u] = w /\ KnownWork(w, c)
    BY <1>4, <2>3, <2>4, SkipCutFacts
  <2> QED
    BY <1>1, <2>2, <2>3, <2>4, <2>5, BrowserKeeps DEF Fetched
<1> QED
  BY <1>2, <1>3, <1>4

LEMMA DrawLinkKeeps ==
  ASSUME NamesInv, NEW u \in Users, NEW from \in Steps, NEW to \in Steps, DrawLink(u, from, to)
  PROVE  NamesInv'
<1>1. /\ chart \in [Users -> Chart] /\ work \in [Users -> Work]
      /\ chart[u] \in Chart /\ KnownChart(chart[u])
  BY UserFacts DEF DesignerTypeOK, KnownUser
<1>2. from \in chart[u].nodes /\ to \in chart[u].nodes /\ from \in DOMAIN rows /\ to \in DOMAIN rows
  BY <1>1 DEF DrawLink, KnownChart
<1>3. PICK links : links = Append(chart[u].links, <<from, to>>)
  OBVIOUS
<1>4. /\ links \in Seq(Link)
      /\ \A i \in DOMAIN links : links[i][1] \in chart[u].nodes /\ links[i][2] \in chart[u].nodes
  <2>1. chart[u].links \in Seq(Link) /\ <<from, to>> \in Link
    BY <1>1, ChartFacts DEF Link
  <2>2. /\ links \in Seq(Link) /\ DOMAIN links = 1 .. (Len(chart[u].links) + 1)
        /\ DOMAIN chart[u].links = 1 .. Len(chart[u].links) /\ Len(chart[u].links) \in Nat
        /\ \A i \in DOMAIN chart[u].links : links[i] = chart[u].links[i]
        /\ links[Len(chart[u].links) + 1] = <<from, to>>
    BY <1>3, <2>1
  <2>3. ASSUME NEW i \in DOMAIN links
        PROVE  links[i][1] \in chart[u].nodes /\ links[i][2] \in chart[u].nodes
    <3>1. CASE i \in DOMAIN chart[u].links
      BY <1>1, <2>2, <3>1 DEF KnownChart
    <3>2. CASE i = Len(chart[u].links) + 1
      BY <1>2, <2>2, <3>2
    <3> QED
      BY <2>2, <3>1, <3>2
  <2> QED
    BY <2>2, <2>3
<1>5. PICK c : c = [chart[u] EXCEPT !.links = links]
  OBVIOUS
<1>6. /\ c \in Chart /\ c.nodes = chart[u].nodes /\ c.links = links
      /\ c.inputs = chart[u].inputs /\ c.outputs = chart[u].outputs
  BY <1>1, <1>4, <1>5 DEF Chart
<1>7. KnownChart(c)
  BY <1>1, <1>4, <1>6 DEF KnownChart
<1>8. chart' = [chart EXCEPT ![u] = c]
  BY <1>1, <1>3, <1>5 DEF DrawLink
<1>9. PICK w \in Work : w = [task |-> "draw", from |-> from, to |-> to, sent |-> "none"]
  BY WorkMade
<1>10. Busy(u, w) /\ KnownWork(work'[u], chart'[u])
  BY <1>1, <1>2, <1>9 DEF DrawLink, Busy, KnownWork
<1> QED
  BY <1>6, <1>7, <1>8, <1>10, BrowserKeeps DEF DrawLink

\* A changed record is posted.
LEMMA PostKeeps ==
  ASSUME NamesInv, NEW u \in Users, NEW s \in Steps, s \in DOMAIN rows,
         NEW next \in Lists, Known(next), NEW text \in BOOLEAN, PostRecord(u, s, next, text),
         work[u].task \in {"draw", "delete"},
         UNCHANGED <<rows, starts, failures, chart, panel>>
  PROVE  NamesInv'
<1>1. PICK r \in Requests : r = [op |-> "update", id |-> s, next |-> next]
  BY RequestsMade
<1>2. Ask(u, r) /\ KnownRequest(r)
  BY <1>1 DEF PostRecord, KnownRequest
<1>3. PICK rec \in Record : rec = [next |-> next, text |-> text]
  BY DEF Record
<1>4. \E k \in [Steps -> Record \union {NoRecord}] :
        cache' = [cache EXCEPT ![u] = k] /\ \A q \in Steps : Known(k[q].next)
  <2>1. cache' = [cache EXCEPT ![u][s] = rec] /\ Known(rec.next)
    BY <1>3 DEF PostRecord, Keep
  <2> QED
    BY <2>1, KeepKnown
<1>5. work \in [Users -> Work] /\ work[u] \in Work /\ KnownWork(work[u], chart[u])
  BY UserFacts DEF KnownUser, DesignerTypeOK
<1>6. PICK w \in Work : w = [work[u] EXCEPT !.sent = "link"]
  <2>1. CASE work[u].task = "draw"
    <3>1. /\ work[u].from \in Steps /\ work[u].to \in Steps
          /\ work[u] = [task |-> "draw", from |-> work[u].from, to |-> work[u].to, sent |-> work[u].sent]
      BY <1>5, <2>1, WorkFacts
    <3>2. PICK x \in Work : x = [task |-> "draw", from |-> work[u].from, to |-> work[u].to, sent |-> "link"]
      BY <3>1, WorkMade
    <3>3. x = [work[u] EXCEPT !.sent = "link"]
      BY <3>1, <3>2
    <3> QED
      BY <3>3
  <2>2. CASE work[u].task = "delete"
    <3>1. /\ work[u].nodes \in SUBSET Steps /\ work[u].left \in SUBSET Nat
          /\ work[u].gone \in SUBSET Steps /\ work[u].cut \in SUBSET Nat
          /\ work[u] = [task |-> "delete", nodes |-> work[u].nodes, left |-> work[u].left,
                        gone |-> work[u].gone, cut |-> work[u].cut, sent |-> work[u].sent]
      BY <1>5, <2>2, WorkFacts
    <3>2. PICK x \in Work : x = [task |-> "delete", nodes |-> work[u].nodes, left |-> work[u].left,
                                 gone |-> work[u].gone, cut |-> work[u].cut, sent |-> "link"]
      BY <3>1, WorkMade
    <3>3. x = [work[u] EXCEPT !.sent = "link"]
      BY <3>1, <3>2
    <3> QED
      BY <3>3
  <2> QED
    BY <2>1, <2>2
<1>7. Busy(u, w) /\ work'[u] = w
  BY <1>5, <1>6 DEF PostRecord, Busy
<1>8. KnownWork(w, chart[u])
  <2>1. CASE work[u].task = "draw"
    <3>1. work[u] = [task |-> "draw", from |-> work[u].from, to |-> work[u].to, sent |-> work[u].sent]
      BY <1>5, <2>1, WorkFacts
    <3>2. w = [task |-> "draw", from |-> work[u].from, to |-> work[u].to, sent |-> "link"]
      BY <1>6, <3>1
    <3> QED
      BY <1>5, <2>1, <3>2 DEF KnownWork
  <2>2. CASE work[u].task = "delete"
    <3>1. work[u] = [task |-> "delete", nodes |-> work[u].nodes, left |-> work[u].left,
                     gone |-> work[u].gone, cut |-> work[u].cut, sent |-> work[u].sent]
      BY <1>5, <2>2, WorkFacts
    <3>2. w = [task |-> "delete", nodes |-> work[u].nodes, left |-> work[u].left,
               gone |-> work[u].gone, cut |-> work[u].cut, sent |-> "link"]
      BY <1>6, <3>1
    <3> QED
      BY <1>5, <2>2, <3>2 DEF KnownWork
  <2> QED
    BY <2>1, <2>2
<1> QED
  BY <1>2, <1>4, <1>7, <1>8, BrowserKeeps

LEMMA PostLinkKeeps ==
  ASSUME NamesInv, NEW u \in Users, PostLink(u)
  PROVE  NamesInv'
<1>1. PICK s, to : s = work[u].from /\ to = work[u].to
  OBVIOUS
<1>2. /\ s \in DOMAIN rows /\ s \in Steps /\ to \in DOMAIN rows /\ to \in Steps
  BY <1>1, UserFacts DEF PostLink, KnownUser, KnownWork
<1>3. PICK next : next = cache[u][s].next
  OBVIOUS
<1>4. next \in Lists /\ Known(next)
  BY <1>1, <1>2, <1>3, UserFacts DEF PostLink, Cached, Record, KnownUser
<1>5. <<to>> \in Lists /\ Known(<<to>>)
  BY <1>2 DEF Lists, Known, Ids
<1>6. Append(next, to) \in Lists /\ Known(Append(next, to))
  BY <1>2, <1>4 DEF Lists, Known, Ids
<1>7. CASE PostRecord(u, s, <<to>>, FALSE)
  BY <1>2, <1>5, <1>7, PostKeeps DEF PostLink
<1>8. CASE PostRecord(u, s, Append(next, to), TRUE)
  BY <1>2, <1>6, <1>8, PostKeeps DEF PostLink
<1>9. PostRecord(u, s, <<to>>, FALSE) \/ PostRecord(u, s, Append(next, to), TRUE)
  BY <1>1, <1>3 DEF PostLink
<1> QED
  BY <1>7, <1>8, <1>9

LEMMA PostUnlinkKeeps ==
  ASSUME NamesInv, NEW u \in Users, PostUnlink(u)
  PROVE  NamesInv'
<1>1. PICK s, to : s = Wanted(u) /\ to = chart[u].links[NextCut(u)][2]
  OBVIOUS
<1>2. s \in DOMAIN rows /\ s \in Steps /\ to \in Steps
  <2>1. s = chart[u].links[NextCut(u)][1]
    BY <1>1 DEF PostUnlink, Wanted, Cutting
  <2> QED
    BY <1>1, <2>1, CutFacts, UserFacts DEF PostUnlink, Link, KnownUser, KnownChart
<1>3. PICK next : next = cache[u][s].next
  OBVIOUS
<1>4. next \in Lists /\ Known(next)
  BY <1>1, <1>2, <1>3, UserFacts DEF PostUnlink, Cached, Record, KnownUser
<1>5. Unlinked(next, to) \in Lists /\ Known(Unlinked(next, to))
  BY <1>2, <1>4, UnlinkedFacts DEF Known
<1>6. CASE cache[u][s].text
  <2>1. PostRecord(u, s, Unlinked(next, to), TRUE)
    BY <1>1, <1>3, <1>6 DEF PostUnlink
  <2> QED
    BY <1>2, <1>5, <2>1, PostKeeps DEF PostUnlink, Cutting
<1>7. CASE ~cache[u][s].text
  <2>1. work' = [work EXCEPT ![u] = Free] /\ req' = req /\ cache' = cache
    BY <1>1, <1>7 DEF PostUnlink, Busy
  <2>2. KnownWork(work'[u], chart'[u]) /\ \E w \in Work : Busy(u, w)
    BY <2>1, FreeKnown, UserFacts DEF Busy, DesignerTypeOK
  <2> QED
    BY <2>1, <2>2, BrowserKeeps DEF PostUnlink
<1> QED
  BY <1>6, <1>7

\* An answer is kept and the command is over.
LEMMA LastAnswerKeeps ==
  ASSUME NamesInv, NEW u \in Users, req[u].op = "reply", Done(u),
         IF req[u].ok THEN KeepAnswer(u) ELSE UNCHANGED cache,
         UNCHANGED <<rows, starts, failures, chart, panel>>
  PROVE  NamesInv'
<1>1. \E r \in Requests : Ask(u, r) /\ KnownRequest(r)
  BY IdleKnown DEF Done
<1>2. work' = [work EXCEPT ![u] = Free]
  BY DEF Done, Busy
<1>3. KnownWork(work'[u], chart'[u]) /\ \E w \in Work : Busy(u, w)
  BY <1>2, FreeKnown, UserFacts DEF Busy, DesignerTypeOK
<1>4. \/ cache' = cache
      \/ \E k \in [Steps -> Record \union {NoRecord}] :
           cache' = [cache EXCEPT ![u] = k] /\ \A s \in Steps : Known(k[s].next)
  BY AnswerKept
<1> QED
  BY <1>1, <1>3, <1>4, BrowserKeeps

LEMMA DeleteSelectedKeeps ==
  ASSUME NamesInv, NEW u \in Users, NEW nodes \in SUBSET Steps, NEW cut, DeleteSelected(u, nodes, cut)
  PROVE  NamesInv'
<1>1. cut \in SUBSET Nat /\ cut \subseteq DOMAIN chart[u].links /\ nodes \subseteq chart[u].nodes
  <2>1. PICK n \in Nat : DOMAIN chart[u].links = 1 .. n
    BY UserFacts, ChartFacts
  <2> QED
    BY <2>1 DEF DeleteSelected
<1>2. PICK w \in Work : w = [task |-> "delete", nodes |-> nodes, left |-> cut,
                             gone |-> nodes, cut |-> cut, sent |-> "none"]
  BY <1>1, WorkMade
<1>3. Busy(u, w) /\ KnownWork(work'[u], chart'[u])
  BY <1>1, <1>2, UserFacts DEF DeleteSelected, Busy, DesignerTypeOK, KnownWork
<1> QED
  BY <1>3, BrowserKeeps DEF DeleteSelected

\* The command of a deletion, further on.
LEMMA DeletionGoesOn ==
  ASSUME NamesInv, NEW u \in Users, work[u].task = "delete",
         NEW s, NEW sent \in {"none", "node", "link"},
         Busy(u, [work[u] EXCEPT !.nodes = @ \ {s}, !.sent = sent]), chart' = chart
  PROVE  KnownWork(work'[u], chart'[u]) /\ \E w \in Work : Busy(u, w)
<1>1. /\ work \in [Users -> Work] /\ work[u] \in Work /\ KnownWork(work[u], chart[u])
      /\ work[u].nodes \in SUBSET Steps /\ work[u].left \in SUBSET Nat
      /\ work[u].gone \in SUBSET Steps /\ work[u].cut \in SUBSET Nat
      /\ work[u] = [task |-> "delete", nodes |-> work[u].nodes, left |-> work[u].left,
                    gone |-> work[u].gone, cut |-> work[u].cut, sent |-> work[u].sent]
  BY UserFacts, WorkFacts DEF DesignerTypeOK, KnownUser
<1>2. PICK nodes \in SUBSET Steps : nodes = work[u].nodes \ {s}
  BY <1>1
<1>3. PICK w \in Work : w = [task |-> "delete", nodes |-> nodes, left |-> work[u].left,
                             gone |-> work[u].gone, cut |-> work[u].cut, sent |-> sent]
  BY <1>1, <1>2, WorkMade
<1>4. Busy(u, w)
  <2>1. [work[u] EXCEPT !.nodes = nodes, !.sent = sent] =
          [task |-> "delete", nodes |-> nodes, left |-> work[u].left,
           gone |-> work[u].gone, cut |-> work[u].cut, sent |-> sent]
    <3>1. work[u] \in Work /\ work[u].task = "delete"
      BY <1>1
    <3> QED
      BY <3>1, DeletionChanged
  <2> QED
    BY <1>2, <1>3, <2>1
<1>5. KnownWork(w, chart[u])
  BY <1>1, <1>2, <1>3 DEF KnownWork
<1> QED
  BY <1>1, <1>4, <1>5 DEF Busy

LEMMA DeleteNodeKeeps ==
  ASSUME NamesInv, NEW u \in Users, NEW s \in Steps, DeleteNode(u, s)
  PROVE  NamesInv'
<1>1. s \in DOMAIN rows /\ rows \in Seq(Row) /\ Len(rows) <= MaxSteps /\ starts \in Lists /\ KnownRows
  BY UserFacts DEF DeleteNode, KnownUser, KnownWork, KnownChart, CatalogTypeOK
<1>2. ASSUME NEW q \in Live \union {Parent}
      PROVE  q \in DOMAIN rows \union {Parent} /\ NextOf(q) \in Lists /\ Known(NextOf(q))
    BY <1>1, RowFacts DEF NextOf, KnownRows
<1>3. /\ Neighbours(s) \in SUBSET [at : Steps \union {Parent}, next : Lists]
      /\ \A n \in Neighbours(s) : n.at \in DOMAIN rows \union {Parent} /\ Known(n.next)
  <2>1. DOMAIN rows \subseteq Steps
    BY <1>1, RowFacts
  <2> QED
    BY <1>2, <2>1 DEF Neighbours
<1>4. PICK r \in Requests : r = [op |-> "delete", id |-> s, todo |-> Neighbours(s)]
  BY <1>3, RequestsMade
<1>5. Ask(u, r) /\ KnownRequest(r)
  BY <1>1, <1>3, <1>4 DEF DeleteNode, KnownRequest
<1>6. \E k \in [Steps -> Record \union {NoRecord}] :
        cache' = [cache EXCEPT ![u] = k] /\ \A q \in Steps : Known(k[q].next)
  <2>1. NoRecord \in Record \union {NoRecord} /\ Known(NoRecord.next)
    BY DEF Known, NoRecord, Ids
  <2>2. cache' = [cache EXCEPT ![u][s] = NoRecord]
    BY DEF DeleteNode, Forget
  <2> QED
    BY <2>1, <2>2, KeepKnown
<1>7. KnownWork(work'[u], chart'[u]) /\ \E w \in Work : Busy(u, w)
  BY DeletionGoesOn DEF DeleteNode
<1> QED
  BY <1>5, <1>6, <1>7, BrowserKeeps DEF DeleteNode

LEMMA NodeDeletedKeeps ==
  ASSUME NamesInv, NEW u \in Users, NodeDeleted(u)
  PROVE  NamesInv'
<1>1. PICK s : s \notin work[u].nodes
  <2>1. work[u].nodes \subseteq Steps
    BY UserFacts, WorkFacts DEF NodeDeleted
  <2>2. 0 \notin work[u].nodes
    BY <2>1 DEF Steps
  <2> QED
    BY <2>2
<1>2. Busy(u, [work[u] EXCEPT !.nodes = @ \ {s}, !.sent = "none"])
  <2>1. work[u].nodes \ {s} = work[u].nodes
    BY <1>1
  <2>2. [work[u] EXCEPT !.nodes = work[u].nodes \ {s}, !.sent = "none"] = [work[u] EXCEPT !.sent = "none"]
    <3>1. work[u] = [task |-> "delete", nodes |-> work[u].nodes, left |-> work[u].left,
                    gone |-> work[u].gone, cut |-> work[u].cut, sent |-> work[u].sent]
      BY UserFacts, WorkFacts DEF NodeDeleted
    <3>2. [work[u] EXCEPT !.nodes = work[u].nodes, !.sent = "none"] = [work[u] EXCEPT !.sent = "none"]
      BY <3>1
    <3> QED
      BY <2>1, <3>2
  <2> QED
    BY <2>2 DEF NodeDeleted
<1>3. KnownWork(work'[u], chart'[u]) /\ \E w \in Work : Busy(u, w)
  BY <1>2, DeletionGoesOn DEF NodeDeleted
<1>4. \E r \in Requests : Ask(u, r) /\ KnownRequest(r)
  BY IdleKnown DEF NodeDeleted
<1> QED
  BY <1>3, <1>4, BrowserKeeps DEF NodeDeleted

LEMMA LinkCutKeeps ==
  ASSUME NamesInv, NEW u \in Users, LinkCut(u)
  PROVE  NamesInv'
<1>1. \E r \in Requests : Ask(u, r) /\ KnownRequest(r)
  BY IdleKnown DEF LinkCut
<1>2. KnownWork(work[u], chart[u])
  BY UserFacts DEF KnownUser
<1>3. CASE req[u].ok
  <2>1. PICK w \in Work : Busy(u, w) /\ work'[u] = w /\ KnownWork(w, chart[u])
    BY <1>2, <1>3, SkipCutFacts DEF LinkCut
  <2>2. \E k \in [Steps -> Record \union {NoRecord}] :
           cache' = [cache EXCEPT ![u] = k] /\ \A s \in Steps : Known(k[s].next)
    BY <1>3, AnswerKept DEF LinkCut
  <2> QED
    BY <1>1, <2>1, <2>2, BrowserKeeps DEF LinkCut
<1>4. CASE ~req[u].ok
  <2>1. work' = [work EXCEPT ![u] = Free] /\ cache' = cache
    BY <1>4 DEF LinkCut, Busy
  <2>2. KnownWork(work'[u], chart'[u]) /\ \E w \in Work : Busy(u, w)
    BY <2>1, FreeKnown, UserFacts DEF Busy, DesignerTypeOK
  <2> QED
    BY <1>1, <2>1, <2>2, BrowserKeeps DEF LinkCut
<1> QED
  BY <1>3, <1>4

\* What remains of a chart.
LEMMA RemovedFacts ==
  ASSUME NamesInv, NEW u \in Users, RemoveSelected(u)
  PROVE  \E c \in Chart :
           /\ chart' = [chart EXCEPT ![u] = c] /\ KnownChart(c)
           /\ c.nodes = chart[u].nodes \ work[u].gone /\ c.whole = chart[u].whole
           /\ \A i \in DOMAIN chart[u].links :
                Remains(u, i) => \E k \in DOMAIN c.links : c.links[k] = chart[u].links[i]
<1>1. chart[u] \in Chart /\ chart[u].links \in Seq(Link) /\ KnownChart(chart[u])
  BY UserFacts, ChartFacts DEF KnownUser
<1>2. PICK places \in SUBSET DOMAIN chart[u].links :
         places = {i \in DOMAIN chart[u].links : Remains(u, i)}
  OBVIOUS
<1>3. PICK links : links = At(chart[u].links, places)
  OBVIOUS
<1>4. /\ links \in Seq(Link)
      /\ \A k \in DOMAIN links : \E i \in places : links[k] = chart[u].links[i]
      /\ \A i \in places : \E k \in DOMAIN links : links[k] = chart[u].links[i]
  BY <1>1, <1>3, AtFacts
<1>5. PICK c : c = [chart[u] EXCEPT !.nodes = @ \ work[u].gone, !.inputs = @ \ work[u].gone,
                                    !.outputs = @ \ work[u].gone, !.links = links]
  OBVIOUS
<1>6. /\ c.nodes = chart[u].nodes \ work[u].gone /\ c.inputs = chart[u].inputs \ work[u].gone
      /\ c.outputs = chart[u].outputs \ work[u].gone /\ c.links = links /\ c.whole = chart[u].whole
      /\ c \in Chart
  BY <1>1, <1>4, <1>5 DEF Chart
<1>7. KnownChart(c)
  <2>1. ASSUME NEW k \in DOMAIN links
        PROVE  links[k][1] \in c.nodes /\ links[k][2] \in c.nodes
    <3>1. PICK i \in places : links[k] = chart[u].links[i]
      BY <1>4
    <3>2. i \in DOMAIN chart[u].links /\ Remains(u, i)
      BY <1>2
    <3> QED
      BY <1>1, <1>6, <3>1, <3>2 DEF Remains, KnownChart
  <2> QED
    BY <1>1, <1>6, <2>1 DEF KnownChart
<1>8. chart' = [chart EXCEPT ![u] = c]
  BY <1>2, <1>3, <1>5 DEF RemoveSelected
<1>9. \A i \in DOMAIN chart[u].links :
        Remains(u, i) => \E k \in DOMAIN c.links : c.links[k] = chart[u].links[i]
  BY <1>2, <1>4, <1>6
<1> QED
  BY <1>6, <1>7, <1>8, <1>9

LEMMA RemoveSelectedKeeps ==
  ASSUME NamesInv, NEW u \in Users, RemoveSelected(u)
  PROVE  NamesInv'
<1>1. PICK c \in Chart : chart' = [chart EXCEPT ![u] = c] /\ KnownChart(c)
  BY RemovedFacts
<1>2. work' = [work EXCEPT ![u] = Free]
  BY DEF RemoveSelected, Busy
<1>3. KnownWork(work'[u], chart'[u]) /\ \E w \in Work : Busy(u, w)
  BY <1>2, FreeKnown, UserFacts DEF Busy, DesignerTypeOK
<1> QED
  BY <1>1, <1>3, BrowserKeeps DEF RemoveSelected

LEMMA NodeDoubleClickKeeps ==
  ASSUME NamesInv, NEW u \in Users, NEW s \in Steps, NodeDoubleClick(u, s)
  PROVE  NamesInv'
<1>1. PICK w \in Work : w = [task |-> "show", id |-> s]
  BY WorkMade
<1>2. s \in DOMAIN rows
  BY UserFacts DEF NodeDoubleClick, KnownUser, KnownChart
<1>3. Busy(u, w) /\ KnownWork(work'[u], chart'[u])
  BY <1>1, <1>2, UserFacts DEF NodeDoubleClick, Busy, DesignerTypeOK, KnownWork
<1> QED
  BY <1>3, BrowserKeeps DEF NodeDoubleClick

LEMMA ShowDetailsKeeps ==
  ASSUME NamesInv, NEW u \in Users, ShowDetails(u)
  PROVE  NamesInv'
<1>1. PICK s : s = work[u].id
  OBVIOUS
<1>2. s \in DOMAIN rows /\ s \in Steps
  BY <1>1, UserFacts DEF ShowDetails, KnownUser, KnownWork
<1>3. cache[u][s].next \in Lists /\ Known(cache[u][s].next)
  BY <1>1, <1>2, UserFacts DEF ShowDetails, Cached, Record, KnownUser
<1>4. PICK p : p = [id |-> s, next |-> cache[u][s].next]
  OBVIOUS
<1>5. /\ p \in [id : Steps \union {NoProcess}, next : Lists]
      /\ p.id \in DOMAIN rows \union {NoProcess} /\ Known(p.next)
  BY <1>2, <1>3, <1>4
<1>6. panel' = [panel EXCEPT ![u] = p] /\ work' = [work EXCEPT ![u] = Free]
  BY <1>1, <1>4 DEF ShowDetails, Busy
<1>7. KnownWork(work'[u], chart'[u]) /\ \E w \in Work : Busy(u, w)
  BY <1>6, FreeKnown, UserFacts DEF Busy, DesignerTypeOK
<1> QED
  BY <1>5, <1>6, <1>7, BrowserKeeps DEF ShowDetails

\* While the details window is open, it shows a step.
PanelSteps == \A u \in Users : panel[u] # NoPanel => panel[u].id # NoProcess

LEMMA UpdateDetailsKeeps ==
  ASSUME NamesInv, PanelSteps, NEW u \in Users, UpdateProcessDetails(u)
  PROVE  NamesInv'
<1>1. /\ panel[u].id \in DOMAIN rows /\ panel[u].id \in Steps
      /\ panel[u].next \in Lists /\ Known(panel[u].next)
  BY UserFacts DEF UpdateProcessDetails, PanelSteps, KnownUser
<1>2. PICK r \in Requests : r = [op |-> "update", id |-> panel[u].id, next |-> panel[u].next]
  BY <1>1, RequestsMade
<1>3. Ask(u, r) /\ KnownRequest(r)
  BY <1>1, <1>2 DEF UpdateProcessDetails, KnownRequest
<1>4. PICK w \in Work : w = [task |-> "details"]
  BY WorkMade
<1>5. Busy(u, w) /\ KnownWork(work'[u], chart'[u])
  BY <1>4, UserFacts DEF UpdateProcessDetails, Busy, DesignerTypeOK, KnownWork
<1> QED
  BY <1>3, <1>5, BrowserKeeps DEF UpdateProcessDetails

LEMMA CloseDetailsKeeps ==
  ASSUME NamesInv, NEW u \in Users, CloseDetails(u)
  PROVE  NamesInv'
<1>1. KnownWork(work'[u], chart'[u]) /\ work' = work
  BY FreeKnown DEF CloseDetails, AtRest
<1>2. \E p \in [id : Steps \union {NoProcess}, next : Lists] :
        /\ panel' = [panel EXCEPT ![u] = p]
        /\ p.id \in DOMAIN rows \union {NoProcess} /\ Known(p.next)
  BY NoPanelKnown DEF CloseDetails
<1> QED
  BY <1>1, <1>2, BrowserKeeps DEF CloseDetails

-----------------------------------------------------------------------------
(***************************************************************************)
(* Whatever the browsers do, the lists name steps that were made and the   *)
(* links join nodes of their chart.                                        *)
(***************************************************************************)
IInv == NamesInv /\ PanelSteps

LEMMA PanelStepsKept ==
  ASSUME IInv, [Next]_vars
  PROVE  PanelSteps'
<1>1. CASE panel' = panel
  BY <1>1 DEF IInv, PanelSteps
<1>2. ASSUME NEW u \in Users, panel' = [panel EXCEPT ![u] = NoPanel]
      PROVE  PanelSteps'
  BY <1>2, UserFacts DEF IInv, PanelSteps, DesignerTypeOK
<1>3. ASSUME NEW u \in Users, ShowDetails(u) PROVE PanelSteps'
  <2>1. work[u].id \in Steps
    BY <1>3, UserFacts, WorkFacts DEF IInv, ShowDetails
  <2>2. panel' = [panel EXCEPT ![u] = [id |-> work[u].id, next |-> cache[u][work[u].id].next]]
    BY <1>3 DEF ShowDetails
  <2>3. work[u].id # NoProcess
    BY <2>1 DEF Steps, NoProcess
  <2> QED
    BY <2>2, <2>3, UserFacts DEF IInv, PanelSteps, DesignerTypeOK
<1>4. ASSUME NEW u \in Users, Command(u)
      PROVE  panel' = panel \/ panel' = [panel EXCEPT ![u] = NoPanel]
  BY <1>4 DEF Command, Open, UpdateProcessDetails, CloseDetails, AddNewNode, DuplicateSelected,
              NodeDoubleClick, DrawLink, DeleteSelected
<1>5. ASSUME NEW u \in Users, GoOn(u)
      PROVE  panel' = panel \/ ShowDetails(u)
  BY <1>5 DEF GoOn, NodeAdded, Fetch, Fetched, DetailsUpdated, PostLink, LinkPosted, DeleteNode,
              NodeDeleted, PostUnlink, LinkCut, RemoveSelected
<1>6. ASSUME NEW u \in Users, Service(u) \/ UNCHANGED browserVars
      PROVE  panel' = panel
  BY <1>6 DEF Service, browserVars
<1>7. CASE UNCHANGED vars
  BY <1>1, <1>7 DEF vars
<1>8. CASE Next
  BY <1>1, <1>2, <1>3, <1>4, <1>5, <1>6, <1>8 DEF Next
<1> QED
  BY <1>7, <1>8

\* A step of the service, for a browser that waits.
LEMMA ServiceStep ==
  ASSUME NamesInv, NEW u \in Users, Serve(u) \/ Fail(u), UNCHANGED browserVars
  PROVE  NamesInv'
<1>1. Keeps(u)
  BY ServiceKeeps, UserFacts DEF KnownUser
<1>2. PICK r \in Requests : Ask(u, r) /\ KnownRequest(r)'
  BY <1>1 DEF Keeps
<1>3. /\ req' \in [Users -> Requests] /\ req'[u] = r
      /\ \A v \in Users \ {u} : req'[v] = req[v]
  BY <1>2, RequestMadeBy DEF NamesInv, TypeOK, CatalogTypeOK
<1>4. CatalogTypeOK' /\ DesignerTypeOK' /\ KnownRows'
  BY <1>1, <1>3 DEF Keeps, TableOK, CatalogTypeOK, NamesInv, TypeOK, DesignerTypeOK, browserVars
<1>5. ASSUME NEW v \in Users PROVE KnownUser(v)'
  <2>1. PICK q, w, c, k, p : q = req[v] /\ w = work[v] /\ c = chart[v] /\ k = cache[v] /\ p = panel[v]
    OBVIOUS
  <2>2. /\ KnownRequest(q) /\ KnownWork(w, c) /\ KnownChart(c)
        /\ \A s \in Steps : Known(k[s].next)
        /\ p.id \in DOMAIN rows \union {NoProcess} /\ Known(p.next)
    BY <2>1, UserFacts DEF KnownUser
  <2>3. /\ KnownRequest(q)' /\ KnownWork(w, c)' /\ KnownChart(c)'
        /\ \A list : Known(list) => Known(list)' /\ DOMAIN rows \subseteq DOMAIN rows'
    BY <1>1, <2>2, StaysKnown DEF Keeps
  <2>4. KnownRequest(req[v])'
    <3>1. CASE v = u
      BY <1>2, <1>3, <3>1 DEF KnownRequest, Known
    <3>2. CASE v # u
      BY <1>3, <2>1, <2>3, <3>2 DEF KnownRequest, Known
    <3> QED
      BY <3>1, <3>2
  <2>5. work' = work /\ chart' = chart /\ cache' = cache /\ panel' = panel
    BY DEF browserVars
  <2>6. KnownWork(work[v], chart[v])' /\ KnownChart(chart[v])'
    BY <2>1, <2>3, <2>5 DEF KnownWork, KnownChart
  <2>7. ASSUME NEW s \in Steps PROVE Known(cache[v][s].next)'
    BY <2>1, <2>2, <2>3, <2>5 DEF Known
  <2>8. Known(panel[v].next)' /\ panel'[v].id \in DOMAIN rows' \union {NoProcess}
    BY <2>1, <2>2, <2>3, <2>5 DEF Known
  <2> QED
    BY <2>4, <2>6, <2>7, <2>8 DEF KnownUser
<1> QED
  BY <1>4, <1>5 DEF NamesInv, TypeOK

LEMMA NamesStart == Init => IInv
<1> SUFFICES ASSUME Init PROVE IInv
  OBVIOUS
<1>1. <<NoProcess>> \in Lists /\ Known(<<NoProcess>>)
  BY DEF Lists, Known, Ids
<1>2. rows \in Seq(Row) /\ Len(rows) = 0 /\ DOMAIN rows = {}
  BY DEF Init, CatalogInit
<1>3. CatalogTypeOK
  BY <1>1, <1>2, IdleKnown, CatalogAssumption DEF CatalogTypeOK, Init, CatalogInit
<1>4. EmptyChart \in Chart /\ KnownChart(EmptyChart)
  BY DEF EmptyChart, Chart, KnownChart
<1>5. NoRecord \in Record \union {NoRecord} /\ Known(NoRecord.next)
  BY DEF NoRecord, Known, Ids
<1>6. DesignerTypeOK
  BY <1>4, <1>5, FreeKnown, NoPanelKnown DEF DesignerTypeOK, Init
<1>7. KnownRows
  BY <1>1, <1>2 DEF KnownRows, Init, CatalogInit
<1>8. ASSUME NEW u \in Users PROVE KnownUser(u)
  <2>1. req[u] = Idle /\ work[u] = Free /\ chart[u] = EmptyChart /\ panel[u] = NoPanel
    BY DEF Init, CatalogInit
  <2>2. \A s \in Steps : cache[u][s] = NoRecord
    BY DEF Init
  <2> QED
    BY <1>4, <1>5, <2>1, <2>2, IdleKnown, FreeKnown, NoPanelKnown DEF KnownUser
<1>9. PanelSteps
  BY DEF PanelSteps, Init
<1> QED
  BY <1>3, <1>6, <1>7, <1>8, <1>9 DEF IInv, NamesInv, TypeOK

LEMMA NamesStep == IInv /\ [Next]_vars => IInv'
<1> SUFFICES ASSUME IInv, [Next]_vars PROVE IInv'
  OBVIOUS
<1>0. NamesInv /\ PanelSteps /\ PanelSteps'
  BY PanelStepsKept DEF IInv
<1>1. ASSUME UNCHANGED vars PROVE NamesInv'
  BY <1>0, <1>1 DEF vars, NamesInv, TypeOK, CatalogTypeOK, DesignerTypeOK, KnownRows,
     Known, KnownUser, KnownRequest, KnownWork, KnownChart
<1>2. ASSUME NEW u \in Users, Command(u) PROVE NamesInv'
  BY <1>0, <1>2, OpenKeeps, UpdateDetailsKeeps, CloseDetailsKeeps, AddNewNodeKeeps, DuplicateKeeps,
     NodeDoubleClickKeeps, DrawLinkKeeps, DeleteSelectedKeeps DEF Command
<1>3. ASSUME NEW u \in Users, GoOn(u) PROVE NamesInv'
  <2>1. CASE DetailsUpdated(u)
    BY <1>0, <2>1, LastAnswerKeeps DEF DetailsUpdated
  <2>2. CASE LinkPosted(u)
    BY <1>0, <2>2, LastAnswerKeeps DEF LinkPosted
  <2> QED
    BY <1>0, <1>3, <2>1, <2>2, NodeAddedKeeps, FetchKeeps, FetchedKeeps, ShowDetailsKeeps,
       PostLinkKeeps, DeleteNodeKeeps, NodeDeletedKeeps, PostUnlinkKeeps, LinkCutKeeps,
       RemoveSelectedKeeps DEF GoOn
<1>4. ASSUME NEW u \in Users, Service(u) \/ (Fail(u) /\ UNCHANGED browserVars) PROVE NamesInv'
  BY <1>0, <1>4, ServiceStep DEF Service
<1>5. ASSUME Next PROVE NamesInv'
  <2>1. PICK u \in Users : \/ Command(u) \/ GoOn(u)
                           \/ Service(u) \/ (Fail(u) /\ UNCHANGED browserVars)
    BY <1>5 DEF Next
  <2>2. CASE Command(u)
    BY <1>2, <2>2
  <2>3. CASE GoOn(u)
    BY <1>3, <2>3
  <2>4. CASE Service(u) \/ (Fail(u) /\ UNCHANGED browserVars)
    BY <1>4, <2>4
  <2> QED
    BY <2>1, <2>2, <2>3, <2>4
<1> QED
  BY <1>0, <1>1, <1>5 DEF IInv

LEMMA NamesHold == Spec => []IInv
  BY NamesStart, NamesStep, PTL DEF Spec

\* The state has its type.
THEOREM TypeCorrect == Spec => []TypeOK
<1>1. IInv => TypeOK
  BY DEF IInv, NamesInv
<1> QED
  BY <1>1, NamesHold, PTL

\* Whatever the browsers do and whichever requests fail between two transactions,
\* no list of next ids, in the table or kept by a browser, names a step that was
\* never made (no foreign key of PROCESS guards NEXT_PROCESS_ID).
THEOREM ListsNameSteps == Spec => []NamesExist
<1>1. IInv => NamesExist
  BY DEF IInv, NamesInv, NamesExist, KnownRows, KnownUser
<1> QED
  BY <1>1, NamesHold, PTL

\* Every link of a chart joins two nodes that are on it: flowchart.js looks the
\* nodes of a link up by their ids and throws on one it does not find.
THEOREM ChartsAreClosed == Spec => []ChartClosed
<1>1. IInv => ChartClosed
  BY DEF IInv, NamesInv, ChartClosed, KnownUser, KnownChart
<1> QED
  BY <1>1, NamesHold, PTL

-----------------------------------------------------------------------------
(***************************************************************************)
(* One browser.  What it waits for, and what its commands have told of the *)
(* steps, is settled by its own requests then.                             *)
(***************************************************************************)
OneBrowser == \A u, v \in Users : u = v

\* The request a command waits for.
Fits(u) ==
  /\ work[u].task = "none" => req[u] = Idle
  /\ work[u].task = "add" => req[u].op \in {"insert", "adopt", "reply"}
  /\ work[u].task = "duplicate" => req[u].op \in {"clone", "reply"}
  /\ work[u].task = "show" => req[u].op \in {"none", "get", "reply"}
  /\ work[u].task = "details" => req[u].op \in {"update", "reply"}
  /\ work[u].task \in {"draw", "delete"} /\ work[u].sent = "none" =>
       req[u].op \in {"none", "get", "reply"}
  /\ work[u].task \in {"draw", "delete"} /\ work[u].sent = "link" =>
       req[u].op \in {"update", "reply"}
  /\ work[u].task = "delete" /\ work[u].sent = "node" => req[u].op \in {"delete", "reply"}
  /\ work[u].task = "delete" /\ work[u].sent = "none" /\ req[u] # Idle => Cutting(u)

\* What a step leaves in the variables of a browser.
LEMMA Effects ==
  ASSUME NamesInv, NEW u \in Users
  PROVE  /\ \A r : Ask(u, r) => req'[u] = r
         /\ \A w : Busy(u, w) => work'[u] = w
         /\ \A c : chart' = [chart EXCEPT ![u] = c] => chart'[u] = c
         /\ \A p : panel' = [panel EXCEPT ![u] = p] => panel'[u] = p
         /\ \A k : cache' = [cache EXCEPT ![u] = k] => cache'[u] = k
<1>1. /\ req \in [Users -> Requests] /\ work \in [Users -> Work] /\ chart \in [Users -> Chart]
      /\ panel \in [Users -> [id : Steps \union {NoProcess}, next : Lists]]
      /\ cache \in [Users -> [Steps -> Record \union {NoRecord}]]
  BY DEF NamesInv, TypeOK, CatalogTypeOK, DesignerTypeOK
<1>2. \A r : Ask(u, r) => req'[u] = r
  BY <1>1 DEF Ask
<1>3. \A w : Busy(u, w) => work'[u] = w
  BY <1>1 DEF Busy
<1>4. /\ \A c : chart' = [chart EXCEPT ![u] = c] => chart'[u] = c
      /\ \A p : panel' = [panel EXCEPT ![u] = p] => panel'[u] = p
      /\ \A k : cache' = [cache EXCEPT ![u] = k] => cache'[u] = k
  BY <1>1
<1> QED
  BY <1>2, <1>3, <1>4

LEMMA KeepEffect ==
  ASSUME NamesInv, NEW u \in Users, NEW s \in Steps, NEW rec, cache' = [cache EXCEPT ![u][s] = rec]
  PROVE  cache'[u][s] = rec /\ \A q \in Steps \ {s} : cache'[u][q] = cache[u][q]
<1>1. cache \in [Users -> [Steps -> Record \union {NoRecord}]]
  BY DEF NamesInv, TypeOK, DesignerTypeOK
<1> QED
  BY <1>1

LEMMA AnswerEffect ==
  ASSUME NamesInv, NEW u \in Users, req[u].op = "reply", req[u].ok, KeepAnswer(u)
  PROVE  /\ req[u].id \in Steps /\ cache'[u][req[u].id].next = req[u].next
         /\ \A q \in Steps \ {req[u].id} : cache'[u][q] = cache[u][q]
<1>1. req[u].id \in Steps
  BY UserFacts DEF KnownUser, KnownRequest
<1>2. PICK rec : rec = [next |-> req[u].next, text |-> TRUE]
  OBVIOUS
<1>3. PICK s \in Steps : s = req[u].id
  BY <1>1
<1>4. cache' = [cache EXCEPT ![u][s] = rec] /\ rec.next = req[u].next
  BY <1>2, <1>3 DEF KeepAnswer, Keep
<1>5. cache'[u][s] = rec /\ \A q \in Steps \ {s} : cache'[u][q] = cache[u][q]
  BY <1>4, KeepEffect
<1> QED
  BY <1>3, <1>4, <1>5

\* How a deletion goes on.
LEMMA SkipCutEffect ==
  ASSUME NamesInv, NEW u \in Users, work[u].task = "delete", SkipCut(u)
  PROVE  /\ work'[u].task = "delete" /\ work'[u].sent = "none" /\ work'[u].nodes = work[u].nodes
         /\ work'[u].left = work[u].left \ {NextCut(u)}
         /\ work'[u].gone = work[u].gone /\ work'[u].cut = work[u].cut
<1>1. work[u] \in Work
  BY UserFacts
<1>2. PICK left : left = work[u].left \ {NextCut(u)}
  OBVIOUS
<1>3. [work[u] EXCEPT !.left = left, !.sent = "none"] =
          [task |-> "delete", nodes |-> work[u].nodes, left |-> left,
           gone |-> work[u].gone, cut |-> work[u].cut, sent |-> "none"]
  BY <1>1, CutChanged
<1>4. work'[u] = [task |-> "delete", nodes |-> work[u].nodes, left |-> left,
                  gone |-> work[u].gone, cut |-> work[u].cut, sent |-> "none"]
  BY <1>2, <1>3, Effects DEF SkipCut
<1> QED
  BY <1>2, <1>4

LEMMA SentEffect ==
  ASSUME NamesInv, NEW u \in Users, NEW sent, Busy(u, [work[u] EXCEPT !.sent = sent])
  PROVE  /\ work[u].task = "draw" =>
              /\ work'[u].task = "draw" /\ work'[u].sent = sent
              /\ work'[u].from = work[u].from /\ work'[u].to = work[u].to
         /\ work[u].task = "delete" =>
              /\ work'[u].task = "delete" /\ work'[u].sent = sent
              /\ work'[u].nodes = work[u].nodes /\ work'[u].left = work[u].left
              /\ work'[u].gone = work[u].gone /\ work'[u].cut = work[u].cut
<1>1. work'[u] = [work[u] EXCEPT !.sent = sent] /\ work[u] \in Work
  BY UserFacts, Effects
<1>2. CASE work[u].task = "draw"
  <2>1. work[u] = [task |-> "draw", from |-> work[u].from, to |-> work[u].to, sent |-> work[u].sent]
    BY <1>1, <1>2, WorkFacts
  <2>2. [work[u] EXCEPT !.sent = sent] =
          [task |-> "draw", from |-> work[u].from, to |-> work[u].to, sent |-> sent]
    BY <2>1
  <2> QED
    BY <1>1, <1>2, <2>2
<1>3. CASE work[u].task = "delete"
  <2>1. work[u] = [task |-> "delete", nodes |-> work[u].nodes, left |-> work[u].left,
                   gone |-> work[u].gone, cut |-> work[u].cut, sent |-> work[u].sent]
    BY <1>1, <1>3, WorkFacts
  <2>2. [work[u] EXCEPT !.sent = sent] =
          [task |-> "delete", nodes |-> work[u].nodes, left |-> work[u].left,
           gone |-> work[u].gone, cut |-> work[u].cut, sent |-> sent]
    BY <2>1
  <2> QED
    BY <1>1, <1>3, <2>2
<1> QED
  BY <1>2, <1>3

LEMMA DeleteNodeEffect ==
  ASSUME NamesInv, NEW u \in Users, NEW s \in Steps, DeleteNode(u, s)
  PROVE  /\ req'[u].op = "delete" /\ req'[u].id = s /\ req'[u].todo = Neighbours(s)
         /\ work'[u].task = "delete" /\ work'[u].sent = "node"
         /\ work'[u].nodes = work[u].nodes \ {s} /\ work'[u].left = work[u].left
         /\ work'[u].gone = work[u].gone /\ work'[u].cut = work[u].cut
         /\ cache'[u][s] = NoRecord /\ \A q \in Steps \ {s} : cache'[u][q] = cache[u][q]
         /\ UNCHANGED <<rows, starts, failures, chart, panel>>
<1>1. work[u] \in Work /\ work[u].task = "delete"
  BY UserFacts DEF DeleteNode
<1>2. PICK nodes : nodes = work[u].nodes \ {s}
  OBVIOUS
<1>3. [work[u] EXCEPT !.nodes = nodes, !.sent = "node"] =
          [task |-> "delete", nodes |-> nodes, left |-> work[u].left,
           gone |-> work[u].gone, cut |-> work[u].cut, sent |-> "node"]
  BY <1>1, DeletionChanged
<1>4. cache'[u][s] = NoRecord /\ \A q \in Steps \ {s} : cache'[u][q] = cache[u][q]
  BY KeepEffect DEF DeleteNode, Forget
<1>5. work'[u] = [task |-> "delete", nodes |-> nodes, left |-> work[u].left,
                  gone |-> work[u].gone, cut |-> work[u].cut, sent |-> "node"]
  BY <1>2, <1>3, Effects DEF DeleteNode
<1>6. req'[u] = [op |-> "delete", id |-> s, todo |-> Neighbours(s)]
  BY Effects DEF DeleteNode
<1> QED
  BY <1>2, <1>4, <1>5, <1>6 DEF DeleteNode

-----------------------------------------------------------------------------
(***************************************************************************)
(* What the steps of the service do to the rows.                           *)
(***************************************************************************)

\* An answer and a refusal.
Answered(u, id, next) ==
  req'[u].op = "reply" /\ req'[u].ok /\ req'[u].id = id /\ req'[u].next = next
Refused(u) ==
  req'[u].op = "reply" /\ ~req'[u].ok /\ req'[u].id = NoProcess /\ req'[u].next = <<>>

LEMMA AnswerEffects ==
  ASSUME NamesInv, NEW u \in Users
  PROVE  /\ \A id, next : Answer(u, TRUE, id, next) => Answered(u, id, next)
         /\ Answer(u, FALSE, NoProcess, <<>>) => Refused(u)
<1>1. ASSUME NEW ok, NEW id, NEW next, Answer(u, ok, id, next)
      PROVE  /\ req'[u].op = "reply" /\ req'[u].ok = ok
             /\ req'[u].id = id /\ req'[u].next = next
  <2>1. req'[u] = [op |-> "reply", ok |-> ok, id |-> id, next |-> next]
    BY <1>1, Effects DEF Answer
  <2> QED
    BY <2>1
<1> QED
  BY <1>1 DEF Answered, Refused

LEMMA UpdateEffect ==
  ASSUME NamesInv, NEW u \in Users, Update(u)
  PROVE  /\ DOMAIN rows' = DOMAIN rows /\ starts' = starts /\ req[u].id \in DOMAIN rows
         /\ \/ /\ rows'[req[u].id].next = req[u].next /\ rows'[req[u].id].deleted = FALSE
               /\ \A q \in DOMAIN rows \ {req[u].id} : rows'[q] = rows[q]
               /\ Answered(u, req[u].id, req[u].next)
            \/ /\ rows' = rows
               /\ Refused(u)
<1>1. PICK s \in DOMAIN rows, next \in Lists : s = req[u].id /\ next = req[u].next
  BY UserFacts, RequestFacts DEF Update, KnownUser, KnownRequest
<1>2. CASE Valid(req[u].next)
  <2>1. rows' = [rows EXCEPT ![s].next = next, ![s].deleted = FALSE]
    BY <1>1, <1>2 DEF Update
  <2>2. /\ DOMAIN rows' = DOMAIN rows /\ rows'[s].next = next /\ rows'[s].deleted = FALSE
        /\ \A q \in DOMAIN rows \ {s} : rows'[q] = rows[q]
    BY <2>1, RowWritten, UserFacts DEF CatalogTypeOK
  <2>3. Answered(u, req[u].id, req[u].next)
    BY <1>2, AnswerEffects DEF Update
  <2> QED
    BY <1>1, <2>2, <2>3 DEF Update
<1>3. CASE ~Valid(req[u].next)
  BY <1>1, <1>3, AnswerEffects DEF Update
<1> QED
  BY <1>2, <1>3

LEMMA AddEffect ==
  ASSUME NamesInv, NEW u \in Users, NEW row, row \in Row, row.deleted = FALSE,
         Len(rows) < MaxSteps, rows' = Append(rows, row)
  PROVE  /\ Len(rows) + 1 \in Steps \ DOMAIN rows
         /\ DOMAIN rows' = DOMAIN rows \union {Len(rows) + 1} /\ rows'[Len(rows) + 1] = row
         /\ \A s \in DOMAIN rows : rows'[s] = rows[s]
         /\ Live' = Live \union {Len(rows) + 1}
<1>1. /\ Len(rows) + 1 \in Steps \ DOMAIN rows
      /\ DOMAIN rows' = DOMAIN rows \union {Len(rows) + 1} /\ rows'[Len(rows) + 1] = row
      /\ \A s \in DOMAIN rows : rows'[s] = rows[s]
  BY RowAdded, UserFacts DEF CatalogTypeOK
<1> QED
  BY <1>1 DEF Live

LEMMA InsertEffect ==
  ASSUME NamesInv, NEW u \in Users, InsertChild(u)
  PROVE  \E new \in Steps \ DOMAIN rows :
           /\ DOMAIN rows' = DOMAIN rows \union {new} /\ rows'[new].next = <<Parent>>
           /\ \A s \in DOMAIN rows : rows'[s] = rows[s]
           /\ Live' = Live \union {new} /\ starts' = starts
           /\ \/ req'[u].op = "adopt" /\ req'[u].id = new /\ req'[u].read = req[u].read
              \/ Answered(u, new, <<Parent>>)
<1>1. req[u].kind \in Kinds /\ <<Parent>> \in Lists
  BY UserFacts, RequestFacts DEF InsertChild, Lists
<1>2. PICK row \in Row : row = [kind |-> req[u].kind, next |-> <<Parent>>, deleted |-> FALSE]
  BY <1>1 DEF Row
<1>3. PICK new : new = Len(rows) + 1
  OBVIOUS
<1>4. /\ new \in Steps \ DOMAIN rows
      /\ DOMAIN rows' = DOMAIN rows \union {new} /\ rows'[new] = row
      /\ \A s \in DOMAIN rows : rows'[s] = rows[s]
      /\ Live' = Live \union {new}
  BY <1>2, <1>3, AddEffect DEF InsertChild
<1>5. \/ req'[u].op = "adopt" /\ req'[u].id = new /\ req'[u].read = req[u].read
      \/ Answered(u, new, <<Parent>>)
  <2>1. CASE req[u].kind = "source"
    <3>1. req'[u] = [op |-> "adopt", id |-> new, read |-> req[u].read]
      BY <1>3, <2>1, Effects DEF InsertChild
    <3> QED
      BY <3>1
  <2>2. CASE req[u].kind # "source"
    BY <1>3, <2>2, AnswerEffects DEF InsertChild
  <2> QED
    BY <2>1, <2>2
<1>6. rows'[new].next = <<Parent>> /\ starts' = starts
  BY <1>2, <1>4 DEF InsertChild
<1> QED
  BY <1>4, <1>5, <1>6

LEMMA CloneEffect ==
  ASSUME NamesInv, NEW u \in Users, Clone(u)
  PROVE  /\ starts' = starts
         /\ \/ \E new \in Steps \ DOMAIN rows :
                 /\ DOMAIN rows' = DOMAIN rows \union {new} /\ rows'[new].next = <<NoProcess>>
                 /\ \A s \in DOMAIN rows : rows'[s] = rows[s]
                 /\ Live' = Live \union {new}
                 /\ Answered(u, new, <<NoProcess>>)
            \/ /\ rows' = rows
               /\ Refused(u)
<1>1. CASE req[u].id \in Live
  <2>1. rows[req[u].id].kind \in Kinds /\ <<NoProcess>> \in Lists
    BY <1>1, UserFacts, RowFacts DEF CatalogTypeOK, Lists
  <2>2. PICK row \in Row : row = [kind |-> rows[req[u].id].kind, next |-> <<NoProcess>>, deleted |-> FALSE]
    BY <2>1 DEF Row
  <2>3. PICK new : new = Len(rows) + 1
    OBVIOUS
  <2>4. /\ new \in Steps \ DOMAIN rows
        /\ DOMAIN rows' = DOMAIN rows \union {new} /\ rows'[new] = row
        /\ \A s \in DOMAIN rows : rows'[s] = rows[s]
        /\ Live' = Live \union {new}
    BY <1>1, <2>2, <2>3, AddEffect DEF Clone
  <2>5. Answered(u, new, <<NoProcess>>)
    BY <1>1, <2>3, AnswerEffects DEF Clone
  <2>6. rows'[new].next = <<NoProcess>> /\ starts' = starts
    BY <2>2, <2>4 DEF Clone
  <2> QED
    BY <2>4, <2>5, <2>6
<1>2. CASE req[u].id \notin Live
  BY <1>2, AnswerEffects DEF Clone
<1> QED
  BY <1>1, <1>2

LEMMA RewireEffect ==
  ASSUME NamesInv, NEW u \in Users, Rewire(u)
  PROVE  \E n \in req[u].todo, list \in Lists :
           /\ n.at \in DOMAIN rows \union {Parent}
           /\ Ids(list) \subseteq (Ids(n.next) \ {req[u].id}) \union {Blank} /\ req[u].id \notin Ids(list)
           /\ DOMAIN rows' = DOMAIN rows /\ Live' = Live
           /\ \A q \in DOMAIN rows \union {Parent} : NextOf(q)' = IF q = n.at THEN list ELSE NextOf(q)
           /\ req[u].op = "delete" /\ req'[u].op = "delete" /\ req'[u].id = req[u].id
           /\ req'[u].todo = req[u].todo \ {n}
<1>1. /\ req[u].op = "delete" /\ req[u].id \in Steps
      /\ req[u].todo \in SUBSET [at : Steps \union {Parent}, next : Lists]
      /\ req[u] = [op |-> "delete", id |-> req[u].id, todo |-> req[u].todo]
  BY UserFacts, RequestFacts DEF Rewire
<1>2. PICK n \in req[u].todo : \E list \in Joined(Ids(n.next) \ {req[u].id}) :
         Write(n.at, list) /\ Ask(u, [req[u] EXCEPT !.todo = @ \ {n}])
  BY DEF Rewire
<1>3. PICK list \in Joined(Ids(n.next) \ {req[u].id}) :
         Write(n.at, list) /\ Ask(u, [req[u] EXCEPT !.todo = @ \ {n}])
  BY <1>2
<1>4. n.at \in DOMAIN rows \union {Parent} /\ n.next \in Lists
  BY <1>1, UserFacts DEF KnownUser, KnownRequest
<1>5. /\ list \in Lists /\ req[u].id \notin Ids(list)
      /\ Ids(list) \subseteq (Ids(n.next) \ {req[u].id}) \union {Blank}
  BY <1>1, <1>3, <1>4, JoinedFacts
<1>6. PICK p \in DOMAIN rows \union {Parent} : p = n.at
  BY <1>4
<1>7. /\ DOMAIN rows' = DOMAIN rows
      /\ \A s \in DOMAIN rows : rows'[s].deleted = rows[s].deleted
      /\ \A q \in DOMAIN rows \union {Parent} : NextOf(q)' = IF q = p THEN list ELSE NextOf(q)
  BY <1>3, <1>5, <1>6, ListWritten, UserFacts DEF CatalogTypeOK
<1>8. Live' = Live
  BY <1>7 DEF Live
<1>9. /\ req'[u].op = "delete" /\ req'[u].id = req[u].id
      /\ req'[u].todo = req[u].todo \ {n}
  <2>1. req'[u] = [req[u] EXCEPT !.todo = req[u].todo \ {n}]
    BY <1>3, Effects
  <2> QED
    BY <1>1, <2>1
<1> QED
  BY <1>1, <1>4, <1>5, <1>6, <1>7, <1>8, <1>9

LEMMA FlagEffect ==
  ASSUME NamesInv, NEW u \in Users, Flag(u)
  PROVE  /\ DOMAIN rows' = DOMAIN rows /\ starts' = starts
         /\ Live' = Live \ {req[u].id} /\ req[u].id \in DOMAIN rows
         /\ \A q \in DOMAIN rows : rows'[q].next = rows[q].next
         /\ Answered(u, req[u].id, <<>>)
<1>1. PICK s \in DOMAIN rows, next \in Lists : s = req[u].id /\ next = rows[s].next
  BY RowFacts, UserFacts DEF CatalogTypeOK, KnownUser, KnownRequest, Flag
<1>2. rows' = [rows EXCEPT ![s].next = next, ![s].deleted = TRUE]
  <2>1. rows[s] \in Row
    BY UserFacts DEF CatalogTypeOK
  <2>2. rows' = [rows EXCEPT ![s].deleted = TRUE]
    BY <1>1 DEF Flag
  <2> QED
    BY <1>1, <2>1, <2>2 DEF Row
<1>3. /\ DOMAIN rows' = DOMAIN rows /\ rows'[s].next = next /\ rows'[s].deleted = TRUE
      /\ \A q \in DOMAIN rows \ {s} : rows'[q] = rows[q]
  BY <1>2, RowWritten, UserFacts DEF CatalogTypeOK
<1>4. Live' = Live \ {s}
  BY <1>3 DEF Live
<1>5. Answered(u, req[u].id, <<>>)
  BY AnswerEffects DEF Flag
<1> QED
  BY <1>1, <1>3, <1>4, <1>5 DEF Flag

-----------------------------------------------------------------------------
(***************************************************************************)
(* Requests fit commands.                                                  *)
(***************************************************************************)
LEMMA CommandFits ==
  ASSUME NamesInv, NEW u \in Users, Fits(u), Command(u)
  PROVE  Fits(u)'
<1>1. CASE Open(u) \/ CloseDetails(u)
  <2>1. work' = work /\ req' = req /\ work[u].task = "none"
    BY <1>1 DEF Open, CloseDetails, AtRest, Free
  <2> QED
    BY <2>1 DEF Fits
<1>2. CASE UpdateProcessDetails(u)
  BY <1>2, Effects DEF UpdateProcessDetails, Fits
<1>3. CASE \E kind \in Kinds : AddNewNode(u, kind)
  BY <1>3, Effects DEF AddNewNode, Fits
<1>4. CASE \E s \in Steps : DuplicateSelected(u, s)
  BY <1>4, Effects DEF DuplicateSelected, Fits
<1>5. CASE \E s \in Steps : NodeDoubleClick(u, s)
  BY <1>5, Effects DEF NodeDoubleClick, AtRest, Free, Fits, Idle
<1>6. CASE \E s, t \in Steps : DrawLink(u, s, t)
  BY <1>6, Effects DEF DrawLink, AtRest, Free, Fits, Idle
<1>7. CASE \E nodes \in SUBSET Steps, cut \in SUBSET (1 .. MaxLinks) : DeleteSelected(u, nodes, cut)
  BY <1>7, Effects DEF DeleteSelected, AtRest, Free, Fits, Idle
<1> QED
  BY <1>1, <1>2, <1>3, <1>4, <1>5, <1>6, <1>7 DEF Command

\* A command is over, or waits for nothing.
LEMMA RestFits ==
  ASSUME NEW u \in Users, req'[u] = Idle,
         \/ work'[u] = Free
         \/ work'[u].task \in {"show", "draw", "delete"} /\ work'[u].sent = "none"
         \/ work'[u].task = "show"
  PROVE  Fits(u)'
  BY DEF Fits, Free, Idle

LEMMA GoOnFits ==
  ASSUME NamesInv, NEW u \in Users, Fits(u), GoOn(u)
  PROVE  Fits(u)'
<1>1. CASE NodeAdded(u) \/ DetailsUpdated(u) \/ LinkPosted(u)
  BY <1>1, Effects, RestFits DEF NodeAdded, DetailsUpdated, LinkPosted, Done
<1>2. CASE Fetch(u)
  <2>1. work' = work /\ req'[u].op = "get"
    BY <1>2, Effects DEF Fetch
  <2>2. work[u].task = "show" \/ (work[u].task = "draw" /\ work[u].sent = "none") \/ Cutting(u)
    BY <1>2 DEF Fetch, Wanted, Cutting
  <2>3. (Cutting(u))' <=> Cutting(u)
    BY <2>1 DEF Cutting
  <2>4. Cutting(u) => work[u].task = "delete" /\ work[u].sent = "none"
    BY DEF Cutting
  <2> QED
    BY <2>1, <2>2, <2>3, <2>4 DEF Fits
<1>3. CASE Fetched(u)
  <2>1. req'[u] = Idle
    BY <1>3, Effects DEF Fetched
  <2>2. work[u].task = "show" \/ (work[u].task \in {"draw", "delete"} /\ work[u].sent = "none")
    BY <1>3 DEF Fetched, Wanted, Cutting
  <2>3. work' = work \/ work'[u] = Free \/ (work[u].task = "delete" /\ SkipCut(u))
    BY <1>3, Effects DEF Fetched
  <2>4. ASSUME work[u].task = "delete", SkipCut(u)
        PROVE  work'[u].task = "delete" /\ work'[u].sent = "none"
    BY <2>4, SkipCutEffect
  <2> QED
    BY <2>1, <2>2, <2>3, <2>4, RestFits
<1>4. CASE ShowDetails(u)
  BY <1>4, Effects, RestFits DEF ShowDetails
<1>5. CASE PostLink(u) \/ PostUnlink(u)
  <2>1. CASE req'[u].op = "update" /\ Busy(u, [work[u] EXCEPT !.sent = "link"])
    <3>1. work[u].task \in {"draw", "delete"}
      BY <1>5 DEF PostLink, PostUnlink, Cutting
    <3>2. work'[u].task \in {"draw", "delete"} /\ work'[u].sent = "link"
      BY <2>1, <3>1, SentEffect
    <3> QED
      BY <2>1, <3>2 DEF Fits
  <2>2. CASE req'[u] = Idle /\ work'[u] = Free
    BY <2>2, RestFits
  <2>3. ASSUME NEW s, NEW next, NEW text, PostRecord(u, s, next, text)
        PROVE  req'[u].op = "update" /\ Busy(u, [work[u] EXCEPT !.sent = "link"])
    BY <2>3, Effects DEF PostRecord
  <2>4. PostUnlink(u) => \/ \E s, next, text : PostRecord(u, s, next, text)
                         \/ req'[u] = Idle /\ work'[u] = Free
    BY Effects DEF PostUnlink
  <2>5. PostLink(u) => \E s, next, text : PostRecord(u, s, next, text)
    BY DEF PostLink
  <2> QED
    BY <1>5, <2>1, <2>2, <2>3, <2>4, <2>5
<1>6. CASE \E s \in Steps : DeleteNode(u, s)
  BY <1>6, DeleteNodeEffect DEF Fits
<1>7. CASE NodeDeleted(u)
  <2>1. req'[u] = Idle /\ work[u].task = "delete" /\ Busy(u, [work[u] EXCEPT !.sent = "none"])
    BY <1>7, Effects DEF NodeDeleted
  <2>2. work'[u].task = "delete" /\ work'[u].sent = "none"
    BY <2>1, SentEffect
  <2> QED
    BY <2>1, <2>2, RestFits
<1>8. CASE LinkCut(u)
  <2>1. req'[u] = Idle /\ work[u].task = "delete" /\ (work'[u] = Free \/ SkipCut(u))
    BY <1>8, Effects DEF LinkCut
  <2>2. ASSUME SkipCut(u) PROVE work'[u].task = "delete" /\ work'[u].sent = "none"
    BY <2>1, <2>2, SkipCutEffect
  <2> QED
    BY <2>1, <2>2, RestFits
<1>9. CASE RemoveSelected(u)
  <2>1. req' = req /\ work'[u] = Free
    BY <1>9, Effects DEF RemoveSelected
  <2>2. req[u] = Idle
    BY <1>9 DEF RemoveSelected, Removed, Cutting, Fits
  <2> QED
    BY <2>1, <2>2, RestFits
<1> QED
  BY <1>1, <1>2, <1>3, <1>4, <1>5, <1>6, <1>7, <1>8, <1>9 DEF GoOn

\* The service answers, or goes on with the request it has.
LEMMA ServiceFits ==
  ASSUME NamesInv, NEW u \in Users, Fits(u), Serve(u) \/ Fail(u), UNCHANGED browserVars
  PROVE  Fits(u)'
<1>1. work' = work /\ ((Cutting(u))' <=> Cutting(u))
  BY DEF browserVars, Cutting
<1>2. ASSUME req[u].op # "none", req'[u].op = "reply" PROVE Fits(u)'
  <2>1. req[u] # Idle
    BY <1>2 DEF Idle
  <2> QED
    BY <1>1, <1>2, <2>1 DEF Fits
<1>3. ASSUME req[u].op = "insert", req'[u].op = "adopt" PROVE Fits(u)'
  <2>1. req[u] # Idle
    BY <1>3 DEF Idle
  <2> QED
    BY <1>1, <1>3, <2>1 DEF Fits
<1>4. ASSUME req[u].op = "delete", req'[u].op = "delete" PROVE Fits(u)'
  <2>1. req[u] # Idle
    BY <1>4 DEF Idle
  <2> QED
    BY <1>1, <1>4, <2>1 DEF Fits
<1>5. CASE Get(u) \/ Adopt(u) \/ Fail(u)
  <2>1. Refused(u) \/ \E id, next : Answered(u, id, next)
    BY <1>5, AnswerEffects DEF Get, Adopt, Fail
  <2>2. req[u].op # "none" /\ req'[u].op = "reply"
    BY <1>5, <2>1 DEF Get, Adopt, Fail, Answered, Refused
  <2> QED
    BY <1>2, <2>2
<1>6. CASE Update(u)
  <2>1. Answered(u, req[u].id, req[u].next) \/ Refused(u)
    BY <1>6, UpdateEffect
  <2>2. req[u].op # "none" /\ req'[u].op = "reply"
    BY <1>6, <2>1 DEF Update, Answered, Refused
  <2> QED
    BY <1>2, <2>2
<1>7. CASE InsertChild(u)
  <2>1. req'[u].op = "adopt" \/ \E new : Answered(u, new, <<Parent>>)
    BY <1>7, InsertEffect
  <2>2. req[u].op = "insert" /\ req'[u].op \in {"adopt", "reply"}
    BY <1>7, <2>1 DEF InsertChild, Answered
  <2> QED
    BY <1>2, <1>3, <2>2
<1>8. CASE Clone(u)
  <2>1. Refused(u) \/ \E new : Answered(u, new, <<NoProcess>>)
    BY <1>8, CloneEffect
  <2>2. req[u].op # "none" /\ req'[u].op = "reply"
    <3>1. req[u].op # "none"
      BY <1>8 DEF Clone
    <3> QED
      BY <2>1, <3>1 DEF Answered, Refused
  <2> QED
    BY <1>2, <2>2
<1>9. CASE Rewire(u)
  <2>1. req[u].op = "delete" /\ req'[u].op = "delete"
    BY <1>9, RewireEffect
  <2> QED
    BY <1>4, <2>1
<1>10. CASE Flag(u)
  <2>1. Answered(u, req[u].id, <<>>)
    BY <1>10, FlagEffect
  <2>2. req[u].op # "none" /\ req'[u].op = "reply"
    BY <1>10, <2>1 DEF Flag, Answered
  <2> QED
    BY <1>2, <2>2
<1> QED
  BY <1>5, <1>6, <1>7, <1>8, <1>9, <1>10 DEF Serve

-----------------------------------------------------------------------------
(***************************************************************************)
(* One browser: the workflow starts with live steps, and a deletion that   *)
(* is answered leaves no list that names the step.                         *)
(***************************************************************************)
Starting == Live \union {NoProcess, Blank}

\* What the workflow starts with, and what a request is about to make of it.
StartInv(u) ==
  /\ Ids(starts) \subseteq Starting
  /\ req[u].op \in {"insert", "adopt"} => Ids(req[u].read) \subseteq Starting
  /\ req[u].op = "adopt" => req[u].id \in Live
  /\ req[u].op = "delete" =>
       /\ \A n \in req[u].todo : n.at = Parent => Ids(n.next) \subseteq Starting
       /\ \A p \in Live \union {Parent} :
            req[u].id \in Ids(NextOf(p)) => \E n \in req[u].todo : n.at = p

\* An answered deletion, and the lists then.
UnlinkedBy(u) ==
  req[u].op = "reply" /\ req[u].ok /\ work[u].task = "delete" /\ work[u].sent = "node" =>
    \A p \in Live \union {Parent} : req[u].id \notin Ids(NextOf(p))

\* A browser leaves the table alone, and answers no request.
Asks(u) ==
  \/ req'[u].op \in {"none", "get", "update", "clone"}
  \/ req'[u].op = "insert" /\ req'[u].read = starts
  \/ req'[u].op = "delete" /\ req'[u].todo = Neighbours(req'[u].id)

LEMMA BrowserAsks ==
  ASSUME NamesInv, NEW u \in Users, Fits(u), Command(u) \/ GoOn(u)
  PROVE  rows' = rows /\ starts' = starts /\ Asks(u)
<1>1. CASE Command(u)
  <2>1. ASSUME req' = req, AtRest(u) PROVE Asks(u)
    BY <2>1 DEF AtRest, Free, Fits, Idle, Asks
  <2>2. CASE Open(u) \/ CloseDetails(u)
    BY <2>1, <2>2 DEF Open, CloseDetails
  <2>3. CASE UpdateProcessDetails(u)
    <3>1. req'[u] = [op |-> "update", id |-> panel[u].id, next |-> panel[u].next]
      BY <2>3, Effects DEF UpdateProcessDetails
    <3> QED
      BY <2>3, <3>1 DEF UpdateProcessDetails, Asks
  <2>4. CASE \E kind \in Kinds : AddNewNode(u, kind)
    <3>1. PICK kind \in Kinds : AddNewNode(u, kind)
      BY <2>4
    <3>2. req'[u] = [op |-> "insert", kind |-> kind, read |-> starts]
      BY <3>1, Effects DEF AddNewNode
    <3> QED
      BY <3>1, <3>2 DEF AddNewNode, Asks
  <2>5. CASE \E s \in Steps : DuplicateSelected(u, s)
    <3>1. PICK s \in Steps : DuplicateSelected(u, s)
      BY <2>5
    <3>2. req'[u] = [op |-> "clone", id |-> s]
      BY <3>1, Effects DEF DuplicateSelected
    <3> QED
      BY <3>1, <3>2 DEF DuplicateSelected, Asks
  <2>6. CASE \E s \in Steps : NodeDoubleClick(u, s)
    BY <2>1, <2>6 DEF NodeDoubleClick
  <2>7. CASE \E s, t \in Steps : DrawLink(u, s, t)
    BY <2>1, <2>7 DEF DrawLink
  <2>8. CASE \E nodes \in SUBSET Steps, cut \in SUBSET (1 .. MaxLinks) : DeleteSelected(u, nodes, cut)
    BY <2>1, <2>8 DEF DeleteSelected
  <2> QED
    BY <1>1, <2>2, <2>3, <2>4, <2>5, <2>6, <2>7, <2>8 DEF Command
<1>2. CASE GoOn(u)
  <2>1. ASSUME req'[u] = Idle PROVE Asks(u)
    BY <2>1 DEF Idle, Asks
  <2>2. CASE NodeAdded(u) \/ DetailsUpdated(u) \/ LinkPosted(u)
    BY <2>1, <2>2, Effects DEF NodeAdded, DetailsUpdated, LinkPosted, Done
  <2>3. CASE Fetch(u)
    <3>1. req'[u] = [op |-> "get", id |-> Wanted(u)]
      BY <2>3, Effects DEF Fetch
    <3> QED
      BY <2>3, <3>1 DEF Fetch, Asks
  <2>4. CASE Fetched(u) \/ NodeDeleted(u) \/ LinkCut(u)
    BY <2>1, <2>4, Effects DEF Fetched, NodeDeleted, LinkCut
  <2>5. CASE ShowDetails(u)
    BY <2>1, <2>5 DEF ShowDetails
  <2>6. ASSUME NEW s, NEW next, NEW text, PostRecord(u, s, next, text) PROVE Asks(u)
    <3>1. req'[u] = [op |-> "update", id |-> s, next |-> next]
      BY <2>6, Effects DEF PostRecord
    <3> QED
      BY <3>1 DEF Asks
  <2>7. CASE PostLink(u)
    BY <2>6, <2>7 DEF PostLink
  <2>8. CASE PostUnlink(u)
    BY <2>1, <2>6, <2>8 DEF PostUnlink
  <2>9. CASE \E s \in Steps : DeleteNode(u, s)
    BY <2>9, DeleteNodeEffect DEF Asks
  <2>10. CASE RemoveSelected(u)
    <3>1. req[u] = Idle
      BY <2>10 DEF RemoveSelected, Removed, Cutting, Fits
    <3> QED
      BY <2>1, <2>10, <3>1 DEF RemoveSelected
  <2> QED
    BY <1>2, <2>2, <2>3, <2>4, <2>5, <2>7, <2>8, <2>9, <2>10 DEF GoOn
<1> QED
  BY <1>1, <1>2

LEMMA StartsAsked ==
  ASSUME NamesInv, NEW u \in Users, Fits(u), StartInv(u), Command(u) \/ GoOn(u)
  PROVE  StartInv(u)' /\ UnlinkedBy(u)'
<1>1. rows' = rows /\ starts' = starts /\ Asks(u)
  BY BrowserAsks
<1>2. Starting' = Starting /\ Live' = Live /\ \A p : NextOf(p)' = NextOf(p)
  BY <1>1 DEF Starting, Live, NextOf
<1>3. req'[u].op # "reply" /\ req'[u].op # "adopt"
  BY <1>1 DEF Asks
<1>4. req'[u].op = "insert" => Ids(req'[u].read) \subseteq Starting
  BY <1>1 DEF Asks, StartInv
<1>5. ASSUME req'[u].op = "delete"
      PROVE  /\ \A n \in req'[u].todo : n.at = Parent => Ids(n.next) \subseteq Starting
             /\ \A p \in Live \union {Parent} :
                  req'[u].id \in Ids(NextOf(p)) => \E n \in req'[u].todo : n.at = p
  <2>1. PICK id : id = req'[u].id
    OBVIOUS
  <2>2. req'[u].todo = Neighbours(id)
    BY <1>1, <1>5, <2>1 DEF Asks
  <2>3. \A n \in Neighbours(id) : n.at = Parent => n.next = starts
    BY DEF Neighbours, NextOf
  <2>4. ASSUME NEW p \in Live \union {Parent}, id \in Ids(NextOf(p))
        PROVE  \E n \in Neighbours(id) : n.at = p
    <3>1. [at |-> p, next |-> NextOf(p)] \in Neighbours(id)
      BY <2>4 DEF Neighbours
    <3> QED
      BY <3>1
  <2> QED
    BY <2>1, <2>2, <2>3, <2>4 DEF StartInv
<1>6. StartInv(u)'
  BY <1>1, <1>2, <1>3, <1>4, <1>5 DEF StartInv
<1>7. UnlinkedBy(u)'
  BY <1>3 DEF UnlinkedBy
<1> QED
  BY <1>6, <1>7

\* A request is answered while no list is written and no step goes.
LEMMA StartsAnswered ==
  ASSUME NEW u \in Users, StartInv(u), Ids(starts') \subseteq Starting, Live \subseteq Live',
         req'[u].op = "reply"
  PROVE  StartInv(u)'
<1>1. Starting \subseteq Starting'
  BY DEF Starting
<1> QED
  BY <1>1 DEF StartInv

LEMMA AdoptStarts ==
  ASSUME NamesInv, NEW u \in Users, StartInv(u), Adopt(u)
  PROVE  Ids(starts') \subseteq Starting /\ Live' = Live
<1>1. /\ req[u].read \in Lists /\ Ids(req[u].read) \subseteq Starting /\ req[u].id \in Starting
      /\ rows' = rows
  BY UserFacts, RequestFacts DEF Adopt, StartInv, Starting
<1>2. \A i \in DOMAIN req[u].read : req[u].read[i] \in Starting
  BY <1>1 DEF Ids
<1>3. PICK read \in Lists : read = req[u].read
  BY <1>1
<1>4. PICK id : id = req[u].id
  OBVIOUS
<1>5. starts' = <<id>> \/ starts' = Append(read, id)
  BY <1>3, <1>4 DEF Adopt
<1>6. Ids(<<id>>) \subseteq Starting
  BY <1>1, <1>4 DEF Ids
<1>7. Ids(Append(read, id)) \subseteq Starting
  <2>1. \A i \in DOMAIN Append(read, id) : \/ i \in DOMAIN read /\ Append(read, id)[i] = read[i]
                                           \/ Append(read, id)[i] = id
    BY DEF Lists
  <2> QED
    BY <1>1, <1>2, <1>3, <1>4, <2>1 DEF Ids
<1> QED
  BY <1>1, <1>5, <1>6, <1>7 DEF Live

LEMMA RewireStarts ==
  ASSUME NamesInv, NEW u \in Users, StartInv(u), Rewire(u)
  PROVE  StartInv(u)'
<1>1. PICK n \in req[u].todo : \E list \in Lists :
           /\ n.at \in DOMAIN rows \union {Parent}
           /\ Ids(list) \subseteq (Ids(n.next) \ {req[u].id}) \union {Blank} /\ req[u].id \notin Ids(list)
           /\ DOMAIN rows' = DOMAIN rows /\ Live' = Live
           /\ \A q \in DOMAIN rows \union {Parent} : NextOf(q)' = IF q = n.at THEN list ELSE NextOf(q)
           /\ req[u].op = "delete" /\ req'[u].op = "delete" /\ req'[u].id = req[u].id
           /\ req'[u].todo = req[u].todo \ {n}
  BY RewireEffect
<1>2. PICK list \in Lists :
           /\ n.at \in DOMAIN rows \union {Parent}
           /\ Ids(list) \subseteq (Ids(n.next) \ {req[u].id}) \union {Blank} /\ req[u].id \notin Ids(list)
           /\ DOMAIN rows' = DOMAIN rows /\ Live' = Live
           /\ \A q \in DOMAIN rows \union {Parent} : NextOf(q)' = IF q = n.at THEN list ELSE NextOf(q)
           /\ req[u].op = "delete" /\ req'[u].op = "delete" /\ req'[u].id = req[u].id
           /\ req'[u].todo = req[u].todo \ {n}
  BY <1>1
<1>3. Starting' = Starting /\ Live \subseteq DOMAIN rows
  BY <1>2, UserFacts DEF Starting
<1>4. starts' = IF n.at = Parent THEN list ELSE starts
  <2>1. NextOf(Parent)' = starts' /\ NextOf(Parent) = starts
    BY DEF NextOf
  <2>2. NextOf(Parent)' = IF n.at = Parent THEN list ELSE NextOf(Parent)
    BY <1>2
  <2> QED
    BY <2>1, <2>2
<1>5. Ids(starts') \subseteq Starting
  <2>1. CASE n.at = Parent
    <3>1. Ids(n.next) \subseteq Starting
      BY <1>2, <2>1 DEF StartInv
    <3> QED
      BY <1>2, <1>4, <2>1, <3>1 DEF Starting
  <2>2. CASE n.at # Parent
    BY <1>4, <2>2 DEF StartInv
  <2> QED
    BY <2>1, <2>2
<1>6. ASSUME NEW p \in Live \union {Parent}, req[u].id \in Ids(NextOf(p)')
      PROVE  \E m \in req'[u].todo : m.at = p
  <2>1. NextOf(p)' = IF p = n.at THEN list ELSE NextOf(p)
    BY <1>2, <1>3
  <2>2. p # n.at /\ req[u].id \in Ids(NextOf(p))
    BY <1>2, <1>6, <2>1
  <2>3. PICK m \in req[u].todo : m.at = p
    BY <1>2, <2>2 DEF StartInv
  <2>4. m \in req'[u].todo
    BY <1>2, <2>2, <2>3
  <2> QED
    BY <2>3, <2>4
<1>7. \A m \in req'[u].todo : m.at = Parent => Ids(m.next) \subseteq Starting
  BY <1>2 DEF StartInv
<1>8. req'[u].op = "delete" /\ req'[u].id = req[u].id /\ Live' = Live
  BY <1>2
<1> QED
  BY <1>3, <1>5, <1>6, <1>7, <1>8 DEF StartInv

LEMMA FlagStarts ==
  ASSUME NamesInv, NEW u \in Users, StartInv(u), Flag(u)
  PROVE  StartInv(u)' /\ UnlinkedBy(u)'
<1>1. /\ DOMAIN rows' = DOMAIN rows /\ starts' = starts
      /\ Live' = Live \ {req[u].id} /\ req[u].id \in DOMAIN rows
      /\ \A q \in DOMAIN rows : rows'[q].next = rows[q].next
      /\ req'[u].op = "reply" /\ req'[u].id = req[u].id
  BY FlagEffect DEF Answered
<1>2. \A p \in Live \union {Parent} : req[u].id \notin Ids(NextOf(p))
  BY DEF Flag, StartInv
<1>3. req[u].id \notin Ids(starts)
  BY <1>2 DEF NextOf
<1>4. Starting \ {req[u].id} \subseteq Starting'
  BY <1>1 DEF Starting
<1>5. StartInv(u)'
  BY <1>1, <1>3, <1>4 DEF StartInv
<1>6. \A p \in (Live \union {Parent})' : NextOf(p)' = NextOf(p)
  <2>1. Live' \subseteq DOMAIN rows
    BY <1>1, UserFacts
  <2> QED
    BY <1>1, <2>1 DEF NextOf
<1>7. UnlinkedBy(u)'
  <2>1. Live' \subseteq Live
    BY <1>1
  <2>2. \A p \in Live' \union {Parent} : req'[u].id \notin Ids(NextOf(p)')
    BY <1>1, <1>2, <1>6, <2>1
  <2> QED
    BY <2>2 DEF UnlinkedBy
<1> QED
  BY <1>5, <1>7

LEMMA StartsServed ==
  ASSUME NamesInv, NEW u \in Users, Fits(u), StartInv(u), Serve(u) \/ Fail(u), UNCHANGED browserVars
  PROVE  StartInv(u)' /\ UnlinkedBy(u)'
<1>1. work' = work
  BY DEF browserVars
<1>2. ASSUME req[u].op \notin {"delete", "reply"} PROVE UnlinkedBy(u)'
  BY <1>1, <1>2 DEF UnlinkedBy, Fits, Idle
<1>3. CASE Get(u)
  <2>1. Answered(u, req[u].id, rows[req[u].id].next)
    BY <1>3, AnswerEffects DEF Get
  <2>2. Live' = Live /\ starts' = starts /\ req'[u].op = "reply" /\ req[u].op = "get"
    BY <1>3, <2>1 DEF Get, Live, Answered
  <2>3. StartInv(u)'
    BY <2>2, StartsAnswered DEF StartInv
  <2> QED
    BY <1>2, <2>2, <2>3
<1>4. CASE Fail(u)
  <2>1. Refused(u)
    BY <1>4, AnswerEffects DEF Fail
  <2>2. Live' = Live /\ starts' = starts /\ req'[u].op = "reply" /\ ~req'[u].ok
    BY <1>4, <2>1 DEF Fail, Live, Refused
  <2>3. StartInv(u)'
    BY <2>2, StartsAnswered DEF StartInv
  <2> QED
    BY <2>2, <2>3 DEF UnlinkedBy
<1>5. CASE Update(u)
  <2>1. /\ DOMAIN rows' = DOMAIN rows /\ starts' = starts /\ req[u].id \in DOMAIN rows
        /\ \/ /\ rows'[req[u].id].deleted = FALSE
              /\ \A q \in DOMAIN rows \ {req[u].id} : rows'[q] = rows[q]
              /\ Answered(u, req[u].id, req[u].next)
           \/ rows' = rows /\ Refused(u)
    BY <1>5, UpdateEffect
  <2>2. Live \subseteq Live'
    BY <2>1 DEF Live
  <2>3. req'[u].op = "reply" /\ req[u].op = "update"
    BY <1>5, <2>1 DEF Answered, Refused, Update
  <2>4. StartInv(u)'
    BY <2>1, <2>2, <2>3, StartsAnswered DEF StartInv
  <2> QED
    BY <1>2, <2>3, <2>4
<1>6. CASE InsertChild(u)
  <2>1. PICK new \in Steps \ DOMAIN rows :
           /\ Live' = Live \union {new} /\ starts' = starts
           /\ \/ req'[u].op = "adopt" /\ req'[u].id = new /\ req'[u].read = req[u].read
              \/ Answered(u, new, <<Parent>>)
    BY <1>6, InsertEffect
  <2>2. Live' = Live \union {new} /\ starts' = starts /\ req[u].op = "insert"
    BY <1>6, <2>1 DEF InsertChild
  <2>3. CASE Answered(u, new, <<Parent>>)
    <3>1. StartInv(u)'
      BY <2>2, <2>3, StartsAnswered DEF StartInv, Answered
    <3> QED
      BY <1>2, <2>2, <3>1
  <2>4. CASE req'[u].op = "adopt" /\ req'[u].id = new /\ req'[u].read = req[u].read
    <3>1. Starting \subseteq Starting'
      BY <2>2 DEF Starting
    <3>2. StartInv(u)'
      BY <2>2, <2>4, <3>1 DEF StartInv
    <3> QED
      BY <1>2, <2>2, <3>2
  <2> QED
    BY <2>1, <2>3, <2>4
<1>7. CASE Adopt(u)
  <2>1. Ids(starts') \subseteq Starting /\ Live' = Live
    BY <1>7, AdoptStarts
  <2>2. Answered(u, req[u].id, <<Parent>>)
    BY <1>7, AnswerEffects DEF Adopt
  <2>3. StartInv(u)'
    BY <2>1, <2>2, StartsAnswered DEF Answered
  <2>4. req[u].op = "adopt"
    BY <1>7 DEF Adopt
  <2> QED
    BY <1>2, <2>3, <2>4
<1>8. CASE Clone(u)
  <2>1. /\ starts' = starts
        /\ \/ \E new \in Steps \ DOMAIN rows :
                Live' = Live \union {new} /\ Answered(u, new, <<NoProcess>>)
           \/ rows' = rows /\ Refused(u)
    BY <1>8, CloneEffect
  <2>2. Live \subseteq Live' /\ req'[u].op = "reply"
    BY <2>1 DEF Answered, Refused, Live
  <2>3. StartInv(u)'
    BY <2>1, <2>2, StartsAnswered DEF StartInv
  <2>4. req[u].op = "clone"
    BY <1>8 DEF Clone
  <2> QED
    BY <1>2, <2>3, <2>4
<1>9. CASE Rewire(u)
  <2>1. StartInv(u)'
    BY <1>9, RewireStarts
  <2>2. req'[u].op = "delete"
    BY <1>9, RewireEffect
  <2> QED
    BY <2>1, <2>2 DEF UnlinkedBy
<1>10. CASE Flag(u)
  BY <1>10, FlagStarts
<1> QED
  BY <1>3, <1>4, <1>5, <1>6, <1>7, <1>8, <1>9, <1>10 DEF Serve

-----------------------------------------------------------------------------
(***************************************************************************)
(* One browser: no link is hidden.  Some list of s "tells" t when the row, *)
(* the browser's record, its open window, or a request that is on its way  *)
(* names t.  One step of the designer alone makes a list tell something    *)
(* new, the POST of a link, which is drawn by then.                        *)
(***************************************************************************)
RowTells(s, t) == s \in DOMAIN rows /\ t \in Ids(rows[s].next)
KeptTells(u, s, t) ==
  \/ t \in Ids(cache[u][s].next)
  \/ panel[u].id = s /\ t \in Ids(panel[u].next)
SentTells(u, s, t) ==
  \/ req[u].op \in {"update", "reply"} /\ req[u].id = s /\ t \in Ids(req[u].next)
  \/ req[u].op = "delete" /\ \E n \in req[u].todo : n.at = s /\ t \in Ids(n.next)
Tells(u, s, t) == RowTells(s, t) \/ KeptTells(u, s, t) \/ SentTells(u, s, t)

\* A step after which no list tells what none told before.
Silent(u) == \A s, t \in Steps : (Tells(u, s, t))' => Tells(u, s, t)

LEMMA EmptyTells ==
  ASSUME NEW t \in Steps
  PROVE  t \notin Ids(<<>>) /\ t \notin Ids(<<Parent>>) /\ t \notin Ids(<<NoProcess>>)
  BY DEF Ids, Steps, Parent, NoProcess

\* Before a step is made no list of it, and no list, tells anything of it.
LEMMA UnmadeUntold ==
  ASSUME NamesInv, NEW u \in Users, NEW s \in Steps, NEW t \in Steps \ DOMAIN rows
  PROVE  ~Tells(u, s, t)
<1>1. \A list : Known(list) => t \notin Ids(list)
  BY DEF Known, Steps, Parent, NoProcess, Blank
<1>2. /\ \A q \in DOMAIN rows : Known(rows[q].next)
      /\ Known(cache[u][s].next) /\ Known(panel[u].next)
      /\ KnownRequest(req[u])
  BY UserFacts DEF KnownRows, KnownUser
<1>3. ~RowTells(s, t) /\ ~KeptTells(u, s, t)
  BY <1>1, <1>2 DEF RowTells, KeptTells
<1>4. ~SentTells(u, s, t)
  BY <1>1, <1>2 DEF SentTells, KnownRequest
<1> QED
  BY <1>3, <1>4 DEF Tells

-----------------------------------------------------------------------------
\* The service tells nothing new: it answers with the list that it read or wrote.
LEMMA UpdateSilent ==
  ASSUME NamesInv, NEW u \in Users, NEW s \in Steps, NEW t \in Steps, Update(u)
  PROVE  /\ RowTells(s, t)' => RowTells(s, t) \/ SentTells(u, s, t)
         /\ SentTells(u, s, t)' => SentTells(u, s, t)
<1>1. /\ DOMAIN rows' = DOMAIN rows /\ req[u].id \in DOMAIN rows
      /\ \/ /\ rows'[req[u].id].next = req[u].next
            /\ \A q \in DOMAIN rows \ {req[u].id} : rows'[q] = rows[q]
            /\ Answered(u, req[u].id, req[u].next)
         \/ rows' = rows /\ Refused(u)
  BY UpdateEffect
<1>2. req[u].op = "update"
  BY DEF Update
<1>3. RowTells(s, t)' => RowTells(s, t) \/ SentTells(u, s, t)
  BY <1>1, <1>2 DEF RowTells, SentTells
<1>4. SentTells(u, s, t)' => SentTells(u, s, t)
  BY <1>1, <1>2, EmptyTells DEF SentTells, Answered, Refused
<1> QED
  BY <1>3, <1>4

LEMMA RewireSilent ==
  ASSUME NamesInv, NEW u \in Users, NEW s \in Steps, NEW t \in Steps, Rewire(u)
  PROVE  /\ RowTells(s, t)' => RowTells(s, t) \/ SentTells(u, s, t)
         /\ SentTells(u, s, t)' => SentTells(u, s, t)
<1>1. PICK n \in req[u].todo : \E list \in Lists :
           /\ n.at \in DOMAIN rows \union {Parent}
           /\ Ids(list) \subseteq (Ids(n.next) \ {req[u].id}) \union {Blank}
           /\ DOMAIN rows' = DOMAIN rows
           /\ \A q \in DOMAIN rows \union {Parent} : NextOf(q)' = IF q = n.at THEN list ELSE NextOf(q)
           /\ req[u].op = "delete" /\ req'[u].op = "delete"
           /\ req'[u].todo = req[u].todo \ {n}
  BY RewireEffect
<1>2. PICK list \in Lists :
           /\ Ids(list) \subseteq (Ids(n.next) \ {req[u].id}) \union {Blank}
           /\ DOMAIN rows' = DOMAIN rows
           /\ \A q \in DOMAIN rows \union {Parent} : NextOf(q)' = IF q = n.at THEN list ELSE NextOf(q)
           /\ req[u].op = "delete" /\ req'[u].op = "delete"
           /\ req'[u].todo = req[u].todo \ {n}
  BY <1>1
<1>3. ASSUME s \in DOMAIN rows, t \in Ids(rows'[s].next) PROVE RowTells(s, t) \/ SentTells(u, s, t)
  <2>1. s # Parent /\ t # Blank
    BY DEF Steps, Parent, Blank
  <2>2. NextOf(s)' = rows'[s].next /\ NextOf(s) = rows[s].next
    BY <2>1 DEF NextOf
  <2>3. rows'[s].next = IF s = n.at THEN list ELSE rows[s].next
    <3>1. NextOf(s)' = IF s = n.at THEN list ELSE NextOf(s)
      BY <1>2, <1>3
    <3> QED
      BY <2>2, <3>1
  <2>4. CASE s = n.at
    <3>1. t \in Ids(n.next)
      BY <1>2, <1>3, <2>1, <2>3, <2>4
    <3> QED
      BY <1>2, <2>4, <3>1 DEF SentTells
  <2>5. CASE s # n.at
    BY <1>3, <2>3, <2>5 DEF RowTells
  <2> QED
    BY <2>4, <2>5
<1>4. SentTells(u, s, t)' => SentTells(u, s, t)
  BY <1>2 DEF SentTells
<1> QED
  BY <1>2, <1>3, <1>4 DEF RowTells

LEMMA ServeSilent ==
  ASSUME NamesInv, NEW u \in Users, Serve(u) \/ Fail(u), UNCHANGED browserVars
  PROVE  Silent(u) /\ DOMAIN rows \subseteq DOMAIN rows' /\ chart' = chart /\ work' = work /\ panel' = panel
<1>1. /\ cache' = cache /\ panel' = panel /\ chart' = chart /\ work' = work
  BY DEF browserVars
<1>2. ASSUME NEW s \in Steps, NEW t \in Steps
      PROVE  /\ DOMAIN rows \subseteq DOMAIN rows'
             /\ RowTells(s, t)' => RowTells(s, t) \/ SentTells(u, s, t)
             /\ SentTells(u, s, t)' => RowTells(s, t) \/ SentTells(u, s, t)
  <2>1. CASE Get(u)
    <3>1. Answered(u, req[u].id, rows[req[u].id].next)
      BY <2>1, AnswerEffects DEF Get
    <3>2. rows' = rows /\ req[u].op = "get" /\ req[u].id \in DOMAIN rows
      BY <2>1, UserFacts DEF Get, KnownUser, KnownRequest
    <3>3. SentTells(u, s, t)' => RowTells(s, t)
      BY <3>1, <3>2 DEF SentTells, RowTells, Answered
    <3> QED
      BY <3>2, <3>3 DEF RowTells
  <2>2. CASE Update(u)
    <3>1. DOMAIN rows' = DOMAIN rows
      BY <2>2, UpdateEffect
    <3> QED
      BY <2>2, <3>1, UpdateSilent
  <2>3. CASE InsertChild(u)
    <3>1. PICK new \in Steps \ DOMAIN rows :
           /\ DOMAIN rows' = DOMAIN rows \union {new} /\ rows'[new].next = <<Parent>>
           /\ \A q \in DOMAIN rows : rows'[q] = rows[q]
           /\ req'[u].op = "adopt" \/ Answered(u, new, <<Parent>>)
      BY <2>3, InsertEffect
    <3>2. RowTells(s, t)' => RowTells(s, t)
      BY <3>1, EmptyTells DEF RowTells
    <3>3. ~SentTells(u, s, t)'
      BY <3>1, EmptyTells DEF SentTells, Answered
    <3> QED
      BY <3>1, <3>2, <3>3
  <2>4. CASE Adopt(u)
    <3>1. Answered(u, req[u].id, <<Parent>>)
      BY <2>4, AnswerEffects DEF Adopt
    <3>2. ~SentTells(u, s, t)'
      BY <3>1, EmptyTells DEF SentTells, Answered
    <3>3. rows' = rows
      BY <2>4 DEF Adopt
    <3> QED
      BY <3>2, <3>3 DEF RowTells
  <2>5. CASE Clone(u)
    <3>1. \/ \E new \in Steps \ DOMAIN rows :
                 /\ DOMAIN rows' = DOMAIN rows \union {new} /\ rows'[new].next = <<NoProcess>>
                 /\ \A q \in DOMAIN rows : rows'[q] = rows[q]
                 /\ Answered(u, new, <<NoProcess>>)
          \/ rows' = rows /\ Refused(u)
      BY <2>5, CloneEffect
    <3>2. DOMAIN rows \subseteq DOMAIN rows' /\ (RowTells(s, t)' => RowTells(s, t))
      BY <3>1, EmptyTells DEF RowTells
    <3>3. ~SentTells(u, s, t)'
      BY <3>1, EmptyTells DEF SentTells, Answered, Refused
    <3> QED
      BY <3>2, <3>3
  <2>6. CASE Rewire(u)
    <3>1. DOMAIN rows' = DOMAIN rows
      BY <2>6, RewireEffect
    <3> QED
      BY <2>6, <3>1, RewireSilent
  <2>7. CASE Flag(u)
    <3>1. /\ DOMAIN rows' = DOMAIN rows
          /\ \A q \in DOMAIN rows : rows'[q].next = rows[q].next
          /\ Answered(u, req[u].id, <<>>)
      BY <2>7, FlagEffect
    <3>2. ~SentTells(u, s, t)'
      BY <3>1, EmptyTells DEF SentTells, Answered
    <3> QED
      BY <3>1, <3>2 DEF RowTells
  <2>8. CASE Fail(u)
    <3>1. Refused(u)
      BY <2>8, AnswerEffects DEF Fail
    <3>2. ~SentTells(u, s, t)'
      BY <3>1, EmptyTells DEF SentTells, Refused
    <3>3. rows' = rows
      BY <2>8 DEF Fail
    <3> QED
      BY <3>2, <3>3 DEF RowTells
  <2> QED
    BY <2>1, <2>2, <2>3, <2>4, <2>5, <2>6, <2>7, <2>8 DEF Serve
<1>3. ASSUME NEW s \in Steps, NEW t \in Steps PROVE Tells(u, s, t)' => Tells(u, s, t)
  <2>1. KeptTells(u, s, t)' <=> KeptTells(u, s, t)
    BY <1>1 DEF KeptTells
  <2>2. /\ RowTells(s, t)' => RowTells(s, t) \/ SentTells(u, s, t)
        /\ SentTells(u, s, t)' => RowTells(s, t) \/ SentTells(u, s, t)
    BY <1>2
  <2> QED
    BY <2>1, <2>2 DEF Tells
<1>5. Silent(u)
  BY <1>3 DEF Silent
<1>6. DOMAIN rows \subseteq DOMAIN rows'
  <2>1. CASE Steps = {}
    BY <2>1, UserFacts
  <2>2. ASSUME NEW s \in Steps PROVE DOMAIN rows \subseteq DOMAIN rows'
    BY <1>2
  <2> QED
    BY <2>1, <2>2
<1> QED
  BY <1>1, <1>5, <1>6

-----------------------------------------------------------------------------
\* A browser keeps, shows and sends what the table, a record of its own or an
\* answer has told it.
LEMMA KeptSilent ==
  ASSUME NEW u \in Users, rows' = rows,
         \A s, t \in Steps :
           /\ t \in Ids(cache'[u][s].next) => Tells(u, s, t)
           /\ panel'[u].id = s /\ t \in Ids(panel'[u].next) => Tells(u, s, t)
           /\ SentTells(u, s, t)' => Tells(u, s, t)
  PROVE  Silent(u)
<1>1. ASSUME NEW s \in Steps, NEW t \in Steps PROVE Tells(u, s, t)' => Tells(u, s, t)
  <2>1. /\ t \in Ids(cache'[u][s].next) => Tells(u, s, t)
        /\ panel'[u].id = s /\ t \in Ids(panel'[u].next) => Tells(u, s, t)
        /\ SentTells(u, s, t)' => Tells(u, s, t)
    OBVIOUS
  <2>2. KeptTells(u, s, t)' => Tells(u, s, t)
    BY <2>1 DEF KeptTells
  <2>3. RowTells(s, t)' => Tells(u, s, t)
    BY DEF RowTells, Tells
  <2>4. SentTells(u, s, t)' => Tells(u, s, t)
    BY <2>1
  <2> QED
    BY <2>2, <2>3, <2>4 DEF Tells
<1> QED
  BY <1>1 DEF Silent

LEMMA AnswerTells ==
  ASSUME NamesInv, NEW u \in Users, NEW s \in Steps, NEW t \in Steps, req[u].op = "reply",
         IF req[u].ok THEN KeepAnswer(u) ELSE UNCHANGED cache, t \in Ids(cache'[u][s].next)
  PROVE  Tells(u, s, t)
<1>1. CASE req[u].ok
  <2>1. /\ cache'[u][req[u].id].next = req[u].next
        /\ \A q \in Steps \ {req[u].id} : cache'[u][q] = cache[u][q]
    BY <1>1, AnswerEffect
  <2> QED
    BY <2>1 DEF Tells, SentTells, KeptTells
<1>2. CASE ~req[u].ok
  BY <1>2 DEF Tells, KeptTells
<1> QED
  BY <1>1, <1>2

LEMMA IdleTells ==
  ASSUME NEW u \in Users, NEW s \in Steps, NEW t \in Steps,
         req'[u].op \notin {"update", "reply", "delete"}
  PROVE  ~SentTells(u, s, t)'
  BY DEF SentTells

LEMMA OpenSilent ==
  ASSUME NamesInv, NEW u \in Users, Open(u)
  PROVE  Silent(u)
<1>1. rows' = rows /\ req' = req /\ panel'[u] = NoPanel
  BY Effects DEF Open
<1>2. cache'[u] = [s \in Steps |-> IF s \in Live THEN [next |-> rows[s].next, text |-> TRUE]
                                                ELSE NoRecord]
  BY Effects DEF Open
<1>3. ASSUME NEW s \in Steps, NEW t \in Steps
      PROVE  /\ t \in Ids(cache'[u][s].next) => Tells(u, s, t)
             /\ panel'[u].id = s /\ t \in Ids(panel'[u].next) => Tells(u, s, t)
             /\ SentTells(u, s, t)' => Tells(u, s, t)
  <2>1. cache'[u][s].next = IF s \in Live THEN rows[s].next ELSE <<>>
    BY <1>2 DEF NoRecord
  <2>2. t \in Ids(cache'[u][s].next) => RowTells(s, t)
    BY <2>1, EmptyTells, UserFacts DEF RowTells
  <2>3. t \notin Ids(panel'[u].next)
    BY <1>1, EmptyTells DEF NoPanel
  <2>4. SentTells(u, s, t)' <=> SentTells(u, s, t)
    BY <1>1 DEF SentTells
  <2> QED
    BY <2>2, <2>3, <2>4 DEF Tells
<1> QED
  BY <1>1, <1>3, KeptSilent

LEMMA CommandSilent ==
  ASSUME NamesInv, NEW u \in Users, Command(u)
  PROVE  Silent(u)
<1>1. CASE Open(u)
  BY <1>1, OpenSilent
<1>2. ASSUME rows' = rows, cache' = cache, panel' = panel,
             req' = req \/ req'[u].op \notin {"update", "reply", "delete"}
      PROVE  Silent(u)
  <2>1. ASSUME NEW s \in Steps, NEW t \in Steps
        PROVE  /\ t \in Ids(cache'[u][s].next) => Tells(u, s, t)
               /\ panel'[u].id = s /\ t \in Ids(panel'[u].next) => Tells(u, s, t)
               /\ SentTells(u, s, t)' => Tells(u, s, t)
    BY <1>2 DEF Tells, KeptTells, SentTells
  <2> QED
    BY <1>2, <2>1, KeptSilent
<1>3. CASE UpdateProcessDetails(u)
  <2>1. rows' = rows /\ cache' = cache /\ panel' = panel
    BY <1>3 DEF UpdateProcessDetails
  <2>2. req'[u] = [op |-> "update", id |-> panel[u].id, next |-> panel[u].next]
    BY <1>3, Effects DEF UpdateProcessDetails
  <2>3. req'[u].op = "update" /\ req'[u].id = panel[u].id /\ req'[u].next = panel[u].next
    BY <2>2
  <2>4. ASSUME NEW s \in Steps, NEW t \in Steps
        PROVE  /\ t \in Ids(cache'[u][s].next) => Tells(u, s, t)
               /\ panel'[u].id = s /\ t \in Ids(panel'[u].next) => Tells(u, s, t)
               /\ SentTells(u, s, t)' => Tells(u, s, t)
    BY <2>1, <2>3 DEF Tells, KeptTells, SentTells
  <2> QED
    BY <2>1, <2>4, KeptSilent
<1>4. CASE CloseDetails(u)
  <2>1. rows' = rows /\ cache' = cache /\ req' = req /\ panel'[u] = NoPanel
    BY <1>4, Effects DEF CloseDetails
  <2>2. ASSUME NEW s \in Steps, NEW t \in Steps
        PROVE  /\ t \in Ids(cache'[u][s].next) => Tells(u, s, t)
               /\ panel'[u].id = s /\ t \in Ids(panel'[u].next) => Tells(u, s, t)
               /\ SentTells(u, s, t)' => Tells(u, s, t)
    <3>1. t \notin Ids(panel'[u].next)
      BY <2>1, EmptyTells DEF NoPanel
    <3> QED
      BY <2>1, <3>1 DEF Tells, KeptTells, SentTells
  <2> QED
    BY <2>1, <2>2, KeptSilent
<1>5. CASE \E kind \in Kinds : AddNewNode(u, kind)
  <2>1. PICK kind \in Kinds : AddNewNode(u, kind)
    BY <1>5
  <2>2. req'[u] = [op |-> "insert", kind |-> kind, read |-> starts]
    BY <2>1, Effects DEF AddNewNode
  <2> QED
    BY <1>2, <2>1, <2>2 DEF AddNewNode
<1>6. CASE \E s \in Steps : DuplicateSelected(u, s)
  <2>1. PICK s \in Steps : DuplicateSelected(u, s)
    BY <1>6
  <2>2. req'[u] = [op |-> "clone", id |-> s]
    BY <2>1, Effects DEF DuplicateSelected
  <2> QED
    BY <1>2, <2>1, <2>2 DEF DuplicateSelected
<1>7. CASE \/ \E s \in Steps : NodeDoubleClick(u, s)
           \/ \E s, t \in Steps : DrawLink(u, s, t)
           \/ \E nodes \in SUBSET Steps, cut \in SUBSET (1 .. MaxLinks) : DeleteSelected(u, nodes, cut)
  <2>1. rows' = rows /\ cache' = cache /\ panel' = panel /\ req' = req
    BY <1>7 DEF NodeDoubleClick, DrawLink, DeleteSelected
  <2> QED
    BY <1>2, <2>1
<1> QED
  BY <1>1, <1>3, <1>4, <1>5, <1>6, <1>7 DEF Command

\* The POST of a record tells what is posted, of the step it is the record of.
LEMMA PostEffect ==
  ASSUME NamesInv, NEW u \in Users, NEW s \in Steps, NEW next, NEW text, PostRecord(u, s, next, text)
  PROVE  /\ req'[u].op = "update" /\ req'[u].id = s /\ req'[u].next = next
         /\ cache'[u][s].next = next
         /\ \A q \in Steps \ {s} : cache'[u][q] = cache[u][q]
<1>1. req'[u] = [op |-> "update", id |-> s, next |-> next]
  BY Effects DEF PostRecord
<1>2. PICK rec : rec = [next |-> next, text |-> text]
  OBVIOUS
<1>3. cache' = [cache EXCEPT ![u][s] = rec]
  BY <1>2 DEF PostRecord, Keep
<1>4. cache'[u][s] = rec /\ \A q \in Steps \ {s} : cache'[u][q] = cache[u][q]
  BY <1>3, KeepEffect
<1> QED
  BY <1>1, <1>2, <1>4

LEMMA PostTells ==
  ASSUME NamesInv, NEW u \in Users, NEW p \in Steps, NEW next, NEW text,
         PostRecord(u, p, next, text), rows' = rows, panel' = panel,
         NEW s \in Steps, NEW t \in Steps, (Tells(u, s, t))'
  PROVE  Tells(u, s, t) \/ (s = p /\ t \in Ids(next))
<1>1. /\ req'[u].op = "update" /\ req'[u].id = p /\ req'[u].next = next
      /\ cache'[u][p].next = next
      /\ \A q \in Steps \ {p} : cache'[u][q] = cache[u][q]
  BY PostEffect
<1>2. RowTells(s, t)' => RowTells(s, t)
  BY DEF RowTells
<1>3. KeptTells(u, s, t)' => KeptTells(u, s, t) \/ (s = p /\ t \in Ids(next))
  BY <1>1 DEF KeptTells
<1>4. SentTells(u, s, t)' => s = p /\ t \in Ids(next)
  BY <1>1 DEF SentTells
<1> QED
  BY <1>2, <1>3, <1>4 DEF Tells

LEMMA PostUnlinkFacts ==
  ASSUME NamesInv, NEW u \in Users, PostUnlink(u)
  PROVE  \/ \E s, to \in Steps : \E next :
              /\ s = chart[u].links[NextCut(u)][1] /\ to = chart[u].links[NextCut(u)][2]
              /\ PostRecord(u, s, next, TRUE)
              /\ Ids(next) \subseteq (Ids(cache[u][s].next) \ {to}) \union {NoProcess}
         \/ req' = req /\ cache' = cache /\ work'[u] = Free
<1>1. PICK s, to : s = Wanted(u) /\ to = chart[u].links[NextCut(u)][2]
  OBVIOUS
<1>2. s = chart[u].links[NextCut(u)][1]
  BY <1>1 DEF PostUnlink, Wanted, Cutting
<1>3. s \in Steps /\ to \in Steps
  BY <1>1, <1>2, CutFacts, UserFacts DEF PostUnlink, Link
<1>4. PICK list : list = cache[u][s].next
  OBVIOUS
<1>5. list \in Lists
  BY <1>1, <1>3, <1>4, UserFacts DEF PostUnlink, Cached, Record
<1>6. Ids(Unlinked(list, to)) \subseteq (Ids(list) \ {to}) \union {NoProcess}
  BY <1>3, <1>5, UnlinkedFacts
<1>7. CASE cache[u][s].text
  <2>1. PostRecord(u, s, Unlinked(list, to), TRUE)
    BY <1>1, <1>4, <1>7 DEF PostUnlink
  <2> QED
    BY <1>1, <1>2, <1>3, <1>4, <1>6, <2>1
<1>8. CASE ~cache[u][s].text
  BY <1>1, <1>8, Effects DEF PostUnlink
<1> QED
  BY <1>7, <1>8

LEMMA PostLinkTells ==
  ASSUME NamesInv, NEW u \in Users, PostLink(u), NEW s \in Steps, NEW t \in Steps, (Tells(u, s, t))'
  PROVE  Tells(u, s, t) \/ (s = work[u].from /\ t = work[u].to)
<1>1. PICK from \in Steps, to \in Steps : from = work[u].from /\ to = work[u].to
  BY UserFacts, WorkFacts DEF PostLink
<1>2. PICK list : list = cache[u][from].next
  OBVIOUS
<1>3. list \in Lists /\ rows' = rows /\ panel' = panel
  BY <1>1, <1>2, UserFacts DEF PostLink, Cached, Record
<1>4. Ids(<<to>>) = {to} /\ Ids(Append(list, to)) = Ids(list) \union {to}
  <2>1. Ids(<<to>>) = {to}
    BY DEF Ids
  <2>2. /\ \A i \in DOMAIN Append(list, to) : \/ i \in DOMAIN list /\ Append(list, to)[i] = list[i]
                                             \/ Append(list, to)[i] = to
        /\ \A i \in DOMAIN list : i \in DOMAIN Append(list, to) /\ Append(list, to)[i] = list[i]
        /\ Len(list) + 1 \in DOMAIN Append(list, to) /\ Append(list, to)[Len(list) + 1] = to
    BY <1>3 DEF Lists
  <2>3. Ids(Append(list, to)) = Ids(list) \union {to}
    BY <2>2 DEF Ids
  <2> QED
    BY <2>1, <2>3
<1>5. PICK next : /\ \E text : PostRecord(u, from, next, text)
                  /\ Ids(next) \subseteq Ids(list) \union {to}
  BY <1>1, <1>2, <1>4 DEF PostLink
<1>6. PICK text : PostRecord(u, from, next, text)
  BY <1>5
<1>7. Tells(u, s, t) \/ (s = from /\ t \in Ids(next))
  BY <1>3, <1>6, PostTells
<1> QED
  BY <1>1, <1>2, <1>5, <1>7 DEF Tells, KeptTells

LEMMA GoOnSilent ==
  ASSUME NamesInv, NEW u \in Users, GoOn(u), ~PostLink(u)
  PROVE  Silent(u)
<1>1. ASSUME rows' = rows, panel' = panel, req[u].op = "reply", req'[u] = Idle,
             IF req[u].ok THEN KeepAnswer(u) ELSE UNCHANGED cache
      PROVE  Silent(u)
  <2>1. ASSUME NEW s \in Steps, NEW t \in Steps
        PROVE  /\ t \in Ids(cache'[u][s].next) => Tells(u, s, t)
               /\ panel'[u].id = s /\ t \in Ids(panel'[u].next) => Tells(u, s, t)
               /\ SentTells(u, s, t)' => Tells(u, s, t)
    <3>1. t \in Ids(cache'[u][s].next) => Tells(u, s, t)
      BY <1>1, AnswerTells
    <3>2. panel'[u].id = s /\ t \in Ids(panel'[u].next) => Tells(u, s, t)
      BY <1>1 DEF Tells, KeptTells
    <3>3. ~SentTells(u, s, t)'
      BY <1>1, IdleTells DEF Idle
    <3> QED
      BY <3>1, <3>2, <3>3
  <2> QED
    BY <1>1, <2>1, KeptSilent
<1>2. ASSUME rows' = rows, panel' = panel, cache' = cache,
             req' = req \/ req'[u].op \notin {"update", "reply", "delete"}
      PROVE  Silent(u)
  <2>1. ASSUME NEW s \in Steps, NEW t \in Steps
        PROVE  /\ t \in Ids(cache'[u][s].next) => Tells(u, s, t)
               /\ panel'[u].id = s /\ t \in Ids(panel'[u].next) => Tells(u, s, t)
               /\ SentTells(u, s, t)' => Tells(u, s, t)
    BY <1>2 DEF Tells, KeptTells, SentTells
  <2> QED
    BY <1>2, <2>1, KeptSilent
<1>3. ASSUME req'[u] = Idle PROVE req'[u].op \notin {"update", "reply", "delete"}
  BY <1>3 DEF Idle
<1>4. CASE NodeAdded(u)
  <2>1. rows' = rows /\ panel' = panel /\ req[u].op = "reply" /\ req'[u] = Idle
    BY <1>4, Effects DEF NodeAdded, Done
  <2>2. CASE req[u].ok /\ work[u].task = "add"
    BY <1>1, <1>4, <2>1, <2>2 DEF NodeAdded
  <2>3. CASE ~(req[u].ok /\ work[u].task = "add")
    BY <1>2, <1>3, <1>4, <2>1, <2>3 DEF NodeAdded
  <2> QED
    BY <2>2, <2>3
<1>5. CASE DetailsUpdated(u) \/ LinkPosted(u)
  <2>1. /\ rows' = rows /\ panel' = panel /\ req[u].op = "reply" /\ req'[u] = Idle
        /\ IF req[u].ok THEN KeepAnswer(u) ELSE UNCHANGED cache
    BY <1>5, Effects DEF DetailsUpdated, LinkPosted, Done
  <2> QED
    BY <1>1, <2>1
<1>6. CASE Fetch(u)
  <2>1. req'[u] = [op |-> "get", id |-> Wanted(u)]
    BY <1>6, Effects DEF Fetch
  <2> QED
    BY <1>2, <1>6, <2>1 DEF Fetch
<1>7. CASE Fetched(u)
  <2>1. /\ rows' = rows /\ panel' = panel /\ req[u].op = "reply" /\ req'[u] = Idle
        /\ IF req[u].ok THEN KeepAnswer(u) ELSE UNCHANGED cache
    BY <1>7, Effects DEF Fetched
  <2> QED
    BY <1>1, <2>1
<1>8. CASE ShowDetails(u)
  <2>1. rows' = rows /\ cache' = cache /\ req' = req
    BY <1>8 DEF ShowDetails
  <2>2. panel'[u] = [id |-> work[u].id, next |-> cache[u][work[u].id].next]
    BY <1>8, Effects DEF ShowDetails
  <2>3. panel'[u].id = work[u].id /\ panel'[u].next = cache[u][work[u].id].next
    BY <2>2
  <2>4. ASSUME NEW s \in Steps, NEW t \in Steps
        PROVE  /\ t \in Ids(cache'[u][s].next) => Tells(u, s, t)
               /\ panel'[u].id = s /\ t \in Ids(panel'[u].next) => Tells(u, s, t)
               /\ SentTells(u, s, t)' => Tells(u, s, t)
    BY <2>1, <2>3 DEF Tells, KeptTells, SentTells
  <2> QED
    BY <2>1, <2>4, KeptSilent
<1>9. CASE \E d \in Steps : DeleteNode(u, d)
  <2>1. PICK d \in Steps : DeleteNode(u, d)
    BY <1>9
  <2>2. /\ req'[u].op = "delete" /\ req'[u].todo = Neighbours(d)
        /\ cache'[u][d] = NoRecord /\ \A q \in Steps \ {d} : cache'[u][q] = cache[u][q]
        /\ rows' = rows /\ panel' = panel
    BY <2>1, DeleteNodeEffect
  <2>3. ASSUME NEW s \in Steps, NEW t \in Steps
        PROVE  /\ t \in Ids(cache'[u][s].next) => Tells(u, s, t)
               /\ panel'[u].id = s /\ t \in Ids(panel'[u].next) => Tells(u, s, t)
               /\ SentTells(u, s, t)' => Tells(u, s, t)
    <3>1. t \in Ids(cache'[u][s].next) => Tells(u, s, t)
      BY <2>2, EmptyTells DEF NoRecord, Tells, KeptTells
    <3>2. s # Parent /\ Live \subseteq DOMAIN rows
      BY UserFacts DEF Steps, Parent
    <3>3. \A n \in Neighbours(d) : n.at = s => s \in DOMAIN rows /\ n.next = rows[s].next
      BY <3>2 DEF Neighbours, NextOf
    <3>4. SentTells(u, s, t)' => RowTells(s, t)
      BY <2>2, <3>3 DEF SentTells, RowTells
    <3> QED
      BY <2>2, <3>1, <3>4 DEF Tells, KeptTells
  <2> QED
    BY <2>2, <2>3, KeptSilent
<1>10. CASE NodeDeleted(u)
  <2>1. req'[u] = Idle
    BY <1>10, Effects DEF NodeDeleted
  <2> QED
    BY <1>2, <1>3, <1>10, <2>1 DEF NodeDeleted
<1>11. CASE PostUnlink(u)
  <2>0. rows' = rows /\ panel' = panel
    BY <1>11 DEF PostUnlink
  <2>1. ASSUME NEW p \in Steps, NEW to, NEW next, PostRecord(u, p, next, TRUE),
               Ids(next) \subseteq (Ids(cache[u][p].next) \ {to}) \union {NoProcess}
        PROVE  Silent(u)
    <3>1. ASSUME NEW s \in Steps, NEW t \in Steps, Tells(u, s, t)' PROVE Tells(u, s, t)
      <4>1. Tells(u, s, t) \/ (s = p /\ t \in Ids(next))
        BY <2>0, <2>1, <3>1, PostTells
      <4>2. t # NoProcess
        BY DEF Steps, NoProcess
      <4> QED
        BY <2>1, <4>1, <4>2 DEF Tells, KeptTells
    <3> QED
      BY <3>1 DEF Silent
  <2> QED
    BY <1>2, <1>11, <2>0, <2>1, PostUnlinkFacts
<1>12. CASE LinkCut(u)
  <2>1. /\ rows' = rows /\ panel' = panel /\ req[u].op = "reply" /\ req'[u] = Idle
        /\ IF req[u].ok THEN KeepAnswer(u) ELSE UNCHANGED cache
    BY <1>12, Effects DEF LinkCut
  <2> QED
    BY <1>1, <2>1
<1>13. CASE RemoveSelected(u)
  BY <1>2, <1>13 DEF RemoveSelected
<1> QED
  BY <1>4, <1>5, <1>6, <1>7, <1>8, <1>9, <1>10, <1>11, <1>12, <1>13 DEF GoOn

-----------------------------------------------------------------------------
\* Nothing is told of a step that was not made yet, nor of one that is about to
\* come onto the chart.
Unmade(u) == \A s \in Steps \ DOMAIN rows : \A t \in Steps : ~Tells(u, s, t)
Coming(u) ==
  \/ req[u].op = "adopt"
  \/ req[u].op = "reply" /\ req[u].ok /\ work[u].task \in {"add", "duplicate"}
Fresh(u, id) ==
  /\ id \in Steps \ chart[u].nodes
  /\ \A t \in Steps : ~Tells(u, t, id) /\ ~Tells(u, id, t)
UntoldInv(u) == Unmade(u) /\ (Coming(u) => Fresh(u, req[u].id))

LEMMA FreshKept ==
  ASSUME NEW u \in Users, NEW id, Fresh(u, id), Silent(u), chart' = chart
  PROVE  Fresh(u, id)'
<1>1. id \in Steps \ chart'[u].nodes
  BY DEF Fresh
<1>2. ASSUME NEW t \in Steps PROVE ~Tells(u, t, id)' /\ ~Tells(u, id, t)'
  <2>1. ~Tells(u, t, id) /\ ~Tells(u, id, t)
    BY DEF Fresh
  <2> QED
    BY <1>1, <2>1 DEF Silent
<1> QED
  BY <1>1, <1>2 DEF Fresh

LEMMA UntoldServed ==
  ASSUME NamesInv, NEW u \in Users, Fits(u), UntoldInv(u), Serve(u) \/ Fail(u), UNCHANGED browserVars
  PROVE  UntoldInv(u)'
<1>1. Silent(u) /\ DOMAIN rows \subseteq DOMAIN rows' /\ chart' = chart /\ work' = work
  BY ServeSilent
<1>2. Unmade(u)'
  <2>1. ASSUME NEW s \in Steps \ DOMAIN rows', NEW t \in Steps PROVE ~Tells(u, s, t)'
    <3>1. ~Tells(u, s, t)
      BY <1>1 DEF UntoldInv, Unmade
    <3> QED
      BY <1>1, <3>1 DEF Silent
  <2> QED
    BY <2>1 DEF Unmade
<1>3. ASSUME NEW new \in Steps \ DOMAIN rows PROVE Fresh(u, new)
  <2>1. new \notin chart[u].nodes
    BY UserFacts DEF KnownUser, KnownChart
  <2>2. \A t \in Steps : ~Tells(u, t, new) /\ ~Tells(u, new, t)
    BY UnmadeUntold DEF UntoldInv, Unmade
  <2> QED
    BY <2>1, <2>2 DEF Fresh
<1>4. ASSUME NEW id, Fresh(u, id), req'[u].id = id PROVE UntoldInv(u)'
  <2>1. Fresh(u, id)'
    BY <1>1, <1>4, FreshKept
  <2>2. Fresh(u, req[u].id)'
    BY <1>4, <2>1 DEF Fresh
  <2> QED
    BY <1>2, <2>2 DEF UntoldInv
<1>5. ASSUME ~Coming(u)' PROVE UntoldInv(u)'
  BY <1>2, <1>5 DEF UntoldInv
<1>6. ASSUME req[u].op \in {"get", "update", "delete"}, req'[u].op # "adopt" PROVE UntoldInv(u)'
  <2>1. ~Coming(u)'
    BY <1>1, <1>6 DEF Coming, Fits
  <2> QED
    BY <1>5, <2>1
<1>7. CASE Get(u)
  <2>1. Answered(u, req[u].id, rows[req[u].id].next)
    BY <1>7, AnswerEffects DEF Get
  <2> QED
    BY <1>6, <1>7, <2>1 DEF Get, Answered
<1>8. CASE Update(u)
  <2>1. Answered(u, req[u].id, req[u].next) \/ Refused(u)
    BY <1>8, UpdateEffect
  <2> QED
    BY <1>6, <1>8, <2>1 DEF Update, Answered, Refused
<1>9. CASE InsertChild(u)
  <2>1. PICK new \in Steps \ DOMAIN rows : req'[u].id = new
    BY <1>9, InsertEffect DEF Answered
  <2> QED
    BY <1>3, <1>4, <2>1
<1>10. CASE Adopt(u)
  <2>1. Answered(u, req[u].id, <<Parent>>)
    BY <1>10, AnswerEffects DEF Adopt
  <2>2. Fresh(u, req[u].id)
    BY <1>10 DEF Adopt, UntoldInv, Coming
  <2> QED
    BY <1>4, <2>1, <2>2 DEF Answered
<1>11. CASE Clone(u)
  <2>1. \/ \E new \in Steps \ DOMAIN rows : req'[u].id = new
        \/ Refused(u)
    BY <1>11, CloneEffect DEF Answered
  <2>2. CASE Refused(u)
    BY <1>5, <2>2 DEF Refused, Coming
  <2> QED
    BY <1>3, <1>4, <2>1, <2>2
<1>12. CASE Rewire(u)
  <2>1. req[u].op = "delete" /\ req'[u].op = "delete"
    BY <1>12, RewireEffect
  <2> QED
    BY <1>6, <2>1
<1>13. CASE Flag(u)
  <2>1. Answered(u, req[u].id, <<>>)
    BY <1>13, FlagEffect
  <2> QED
    BY <1>6, <1>13, <2>1 DEF Flag, Answered
<1>14. CASE Fail(u)
  <2>1. Refused(u)
    BY <1>14, AnswerEffects DEF Fail
  <2> QED
    BY <1>5, <2>1 DEF Refused, Coming
<1> QED
  BY <1>7, <1>8, <1>9, <1>10, <1>11, <1>12, <1>13, <1>14 DEF Serve

LEMMA UntoldAsked ==
  ASSUME NamesInv, NEW u \in Users, Fits(u), UntoldInv(u), Command(u) \/ GoOn(u)
  PROVE  UntoldInv(u)'
<1>1. rows' = rows /\ Asks(u)
  BY BrowserAsks
<1>2. ~Coming(u)'
  BY <1>1 DEF Asks, Coming
<1>3. ASSUME NEW s \in Steps \ DOMAIN rows, NEW t \in Steps PROVE ~Tells(u, s, t)'
  <2>1. ~Tells(u, s, t)
    BY DEF UntoldInv, Unmade
  <2>2. CASE ~PostLink(u)
    BY <2>1, <2>2, CommandSilent, GoOnSilent DEF Silent
  <2>3. CASE PostLink(u)
    <3>1. work[u].from \in DOMAIN rows
      BY <2>3, UserFacts DEF PostLink, KnownUser, KnownWork
    <3> QED
      BY <2>1, <2>3, <3>1, PostLinkTells
  <2> QED
    BY <2>2, <2>3
<1>4. Unmade(u)'
  BY <1>1, <1>3 DEF Unmade
<1> QED
  BY <1>2, <1>4 DEF UntoldInv

-----------------------------------------------------------------------------
\* The links on a chart, those that are being removed, and the one being drawn.
Drawn(c, s, t) == \E i \in DOMAIN c.links : c.links[i] = <<s, t>>
ToldDrawn(u) ==
  chart[u].whole => \A s, t \in chart[u].nodes : Tells(u, s, t) => Drawn(chart[u], s, t)
DrawShown(u) == work[u].task = "draw" => Drawn(chart[u], work[u].from, work[u].to)

\* The i-th link is told no more, if its nodes are to stay.
Untold(u, i) ==
  LET link == chart[u].links[i]
  IN  link[1] \notin work[u].gone /\ link[2] \notin work[u].gone => ~Tells(u, link[1], link[2])
CutUntold(u) ==
  work[u].task = "delete" =>
    /\ work[u].left \subseteq work[u].cut
    /\ panel[u] # NoPanel => work[u].cut = {} \/ work[u].gone = chart[u].nodes
    /\ chart[u].whole => \A i \in work[u].cut \ work[u].left : Untold(u, i)

\* What is posted of a step without one of its next ids, and what is answered.
Posted(u, from, to) ==
  /\ req[u].op = "update" => req[u].id = from /\ to \notin Ids(req[u].next)
  /\ req[u].op = "reply" /\ req[u].ok =>
       req[u].id = from /\ to \notin Ids(req[u].next) /\ to \notin Ids(rows[from].next)
CutPosted(u) ==
  work[u].task = "delete" /\ work[u].sent = "link" =>
    Posted(u, chart[u].links[NextCut(u)][1], chart[u].links[NextCut(u)][2])

DrawnInv(u) == UntoldInv(u) /\ ToldDrawn(u) /\ DrawShown(u) /\ CutUntold(u) /\ CutPosted(u)

\* A step that tells nothing new, on a chart that stays as it is.
LEMMA ToldKept ==
  ASSUME NamesInv, NEW u \in Users, ToldDrawn(u), Silent(u), chart' = chart
  PROVE  ToldDrawn(u)'
<1>1. chart[u].nodes \subseteq Steps
  BY UserFacts, ChartFacts
<1>2. ASSUME chart[u].whole, NEW s \in chart[u].nodes, NEW t \in chart[u].nodes, Tells(u, s, t)'
      PROVE  Drawn(chart[u], s, t)
  BY <1>1, <1>2 DEF Silent, ToldDrawn
<1> QED
  BY <1>2 DEF ToldDrawn, Drawn

\* So does the POST of a link, which is on the chart.
LEMMA ToldPosted ==
  ASSUME NamesInv, NEW u \in Users, ToldDrawn(u), DrawShown(u), PostLink(u)
  PROVE  ToldDrawn(u)'
<1>1. chart[u].nodes \subseteq Steps /\ chart' = chart /\ work[u].task = "draw"
  BY UserFacts, ChartFacts DEF PostLink
<1>2. ASSUME chart[u].whole, NEW s \in chart[u].nodes, NEW t \in chart[u].nodes, Tells(u, s, t)'
      PROVE  Drawn(chart[u], s, t)
  <2>1. Tells(u, s, t) \/ (s = work[u].from /\ t = work[u].to)
    BY <1>1, <1>2, PostLinkTells
  <2> QED
    BY <1>1, <1>2, <2>1 DEF ToldDrawn, DrawShown
<1> QED
  BY <1>1, <1>2 DEF ToldDrawn, Drawn

\* The chart of a page that is loaded shows what the lists tell.
LEMMA ToldOpened ==
  ASSUME NamesInv, NEW u \in Users, Fits(u), Open(u)
  PROVE  ToldDrawn(u)'
<1>1. PICK inputs, outputs, links, whole :
         /\ chart' = [chart EXCEPT ![u] = [nodes |-> Live, inputs |-> inputs, outputs |-> outputs,
                                           links |-> links, whole |-> whole]]
         /\ links = DrawnArrows /\ whole = (DOMAIN DrawnArrows = DOMAIN AllArrows)
  BY DEF Open
<1>2. /\ chart'[u].nodes = Live /\ chart'[u].links = DrawnArrows
      /\ chart'[u].whole => DOMAIN DrawnArrows = DOMAIN AllArrows
  <2>1. chart'[u] = [nodes |-> Live, inputs |-> inputs, outputs |-> outputs,
                     links |-> links, whole |-> whole]
    BY <1>1, Effects
  <2>2. /\ chart'[u].nodes = Live /\ chart'[u].links = links /\ chart'[u].whole = whole
    BY <2>1
  <2>3. whole => DOMAIN DrawnArrows = DOMAIN AllArrows
    BY <1>1, Zenon
  <2> QED
    BY <1>1, <2>2, <2>3, Zenon
<1>3. /\ panel'[u] = NoPanel /\ req'[u] = Idle /\ rows' = rows
      /\ Live \subseteq DOMAIN rows /\ DOMAIN rows \subseteq Steps
  <2>1. panel'[u] = NoPanel /\ rows' = rows /\ req' = req /\ work[u] = Free
    BY Effects DEF Open, AtRest
  <2>2. req[u] = Idle
    BY <2>1 DEF Fits, Free
  <2> QED
    BY <2>1, <2>2, UserFacts
<1>4. cache'[u] = [s \in Steps |-> IF s \in Live THEN [next |-> rows[s].next, text |-> TRUE]
                                                ELSE NoRecord]
  BY Effects DEF Open
<1>5. ASSUME NEW s \in Live, NEW t \in Live, Tells(u, s, t)' PROVE t \in Ids(rows[s].next) \ {Parent}
  <2>1. cache'[u][s].next = rows[s].next
    BY <1>3, <1>4
  <2>2. t \notin Ids(panel'[u].next) /\ t # Parent
    BY <1>3, EmptyTells DEF NoPanel, Steps, Parent
  <2>3. ~SentTells(u, s, t)'
    BY <1>3 DEF SentTells, Idle
  <2> QED
    BY <1>3, <1>5, <2>1, <2>2, <2>3 DEF Tells, RowTells, KeptTells
<1>6. ASSUME DOMAIN DrawnArrows = DOMAIN AllArrows, NEW s \in Live, NEW t \in Live, Tells(u, s, t)'
      PROVE  \E i \in DOMAIN DrawnArrows : DrawnArrows[i] = <<s, t>>
  <2>1. t \in Ids(rows[s].next) \ {Parent}
    BY <1>5, <1>6
  <2> QED
    BY <1>6, <2>1, DrawnArrowsFacts, UserFacts
<1> QED
  BY <1>2, <1>6 DEF ToldDrawn, Drawn

\* A node that comes is one of which nothing is told.
LEMMA NodeAddedEffect ==
  ASSUME NamesInv, NEW u \in Users, NodeAdded(u)
  PROVE  \/ chart' = chart
         \/ /\ req[u].ok /\ req[u].id \in Steps
            /\ chart'[u].nodes = chart[u].nodes \union {req[u].id}
            /\ chart'[u].links = chart[u].links /\ chart'[u].whole = chart[u].whole
<1>1. CASE req[u].ok
  <2>1. req[u].id \in Steps /\ chart[u] \in Chart
    BY <1>1, UserFacts DEF NodeAdded, KnownUser, KnownRequest
  <2>2. PICK nodes : nodes = chart[u].nodes \union {req[u].id}
    OBVIOUS
  <2>3. ASSUME NEW input, NEW output, AddNode(u, req[u].id, input, output)
        PROVE  /\ chart'[u].nodes = nodes
               /\ chart'[u].links = chart[u].links /\ chart'[u].whole = chart[u].whole
    <3>1. PICK inputs, outputs : chart' = [chart EXCEPT ![u].nodes = nodes, ![u].inputs = inputs,
                                                        ![u].outputs = outputs]
      BY <2>2, <2>3 DEF AddNode
    <3>2. chart'[u] = [chart[u] EXCEPT !.nodes = nodes, !.inputs = inputs, !.outputs = outputs]
      BY <3>1, UserFacts DEF DesignerTypeOK
    <3> QED
      BY <2>1, <3>2, ChartFacts
  <2>4. \E input, output : AddNode(u, req[u].id, input, output)
    BY <1>1 DEF NodeAdded
  <2> QED
    BY <1>1, <2>1, <2>2, <2>3, <2>4
<1>2. CASE ~req[u].ok
  BY <1>2 DEF NodeAdded
<1> QED
  BY <1>1, <1>2

LEMMA ToldAdded ==
  ASSUME NamesInv, NEW u \in Users, ToldDrawn(u), UntoldInv(u), NodeAdded(u)
  PROVE  ToldDrawn(u)'
<1>1. Silent(u)
  BY GoOnSilent DEF GoOn, NodeAdded, PostLink
<1>2. CASE chart' = chart
  BY <1>1, <1>2, ToldKept
<1>3. CASE /\ req[u].ok /\ req[u].id \in Steps
           /\ chart'[u].nodes = chart[u].nodes \union {req[u].id}
           /\ chart'[u].links = chart[u].links /\ chart'[u].whole = chart[u].whole
  <2>1. Fresh(u, req[u].id) /\ chart[u].nodes \subseteq Steps
    BY <1>3, UserFacts, ChartFacts DEF NodeAdded, UntoldInv, Coming
  <2>2. ASSUME chart[u].whole, NEW s \in chart'[u].nodes, NEW t \in chart'[u].nodes, Tells(u, s, t)'
        PROVE  Drawn(chart[u], s, t)
    <3>1. s \in Steps /\ t \in Steps
      BY <1>3, <2>1
    <3>2. Tells(u, s, t)
      BY <1>1, <2>2, <3>1 DEF Silent
    <3>3. s # req[u].id /\ t # req[u].id
      BY <2>1, <3>1, <3>2 DEF Fresh
    <3> QED
      BY <1>3, <2>2, <3>2, <3>3 DEF ToldDrawn
  <2> QED
    BY <1>3, <2>2 DEF ToldDrawn, Drawn
<1> QED
  BY <1>2, <1>3, NodeAddedEffect

\* A link more on the chart hides none.
LEMMA DrawLinkEffect ==
  ASSUME NamesInv, NEW u \in Users, NEW from \in Steps, NEW to \in Steps, DrawLink(u, from, to)
  PROVE  /\ chart'[u].nodes = chart[u].nodes /\ chart'[u].whole = chart[u].whole
         /\ \A s, t : Drawn(chart[u], s, t) => Drawn(chart'[u], s, t)
         /\ Drawn(chart'[u], from, to)
         /\ work'[u].task = "draw" /\ work'[u].from = from /\ work'[u].to = to
<1>1. chart[u].links \in Seq(Link) /\ chart[u] \in Chart
  BY UserFacts, ChartFacts
<1>2. PICK old \in Seq(Link) : old = chart[u].links
  BY <1>1
<1>3. PICK new : new = Append(old, <<from, to>>)
  OBVIOUS
<1>4. /\ \A i \in DOMAIN old : i \in DOMAIN new /\ new[i] = old[i]
      /\ Len(old) + 1 \in DOMAIN new /\ new[Len(old) + 1] = <<from, to>>
  BY <1>3
<1>5. chart'[u] = [chart[u] EXCEPT !.links = new]
  <2>1. chart' = [chart EXCEPT ![u].links = new]
    BY <1>2, <1>3 DEF DrawLink
  <2> QED
    BY <2>1, UserFacts DEF DesignerTypeOK
<1>6. chart'[u].nodes = chart[u].nodes /\ chart'[u].whole = chart[u].whole /\ chart'[u].links = new
  BY <1>1, <1>5, ChartFacts
<1>7. work'[u] = [task |-> "draw", from |-> from, to |-> to, sent |-> "none"]
  BY Effects DEF DrawLink
<1>8. work'[u].task = "draw" /\ work'[u].from = from /\ work'[u].to = to
  BY <1>7
<1>9. ASSUME NEW s, NEW t, Drawn(chart[u], s, t) PROVE Drawn(chart'[u], s, t)
  BY <1>2, <1>4, <1>6, <1>9 DEF Drawn
<1>10. Drawn(chart'[u], from, to)
  BY <1>4, <1>6 DEF Drawn
<1> QED
  BY <1>6, <1>8, <1>9, <1>10

LEMMA ToldLinked ==
  ASSUME NamesInv, NEW u \in Users, ToldDrawn(u), NEW from \in Steps, NEW to \in Steps,
         DrawLink(u, from, to)
  PROVE  ToldDrawn(u)' /\ DrawShown(u)'
<1>1. /\ chart'[u].nodes = chart[u].nodes /\ chart'[u].whole = chart[u].whole
      /\ \A s, t : Drawn(chart[u], s, t) => Drawn(chart'[u], s, t)
      /\ Drawn(chart'[u], from, to)
      /\ work'[u].task = "draw" /\ work'[u].from = from /\ work'[u].to = to
  BY DrawLinkEffect
<1>2. Silent(u) /\ chart[u].nodes \subseteq Steps
  BY CommandSilent, UserFacts, ChartFacts DEF Command
<1>3. ASSUME chart[u].whole, NEW s \in chart[u].nodes, NEW t \in chart[u].nodes, Tells(u, s, t)'
      PROVE  Drawn(chart'[u], s, t)
  BY <1>1, <1>2, <1>3 DEF Silent, ToldDrawn
<1>4. ToldDrawn(u)'
  BY <1>1, <1>3 DEF ToldDrawn
<1> QED
  BY <1>1, <1>4 DEF DrawShown

\* Of a link that goes from the chart, between nodes that stay, nothing is told.
LEMMA ToldRemoved ==
  ASSUME NamesInv, NEW u \in Users, ToldDrawn(u), CutUntold(u), RemoveSelected(u)
  PROVE  ToldDrawn(u)'
<1>1. PICK c \in Chart :
           /\ chart' = [chart EXCEPT ![u] = c]
           /\ c.nodes = chart[u].nodes \ work[u].gone /\ c.whole = chart[u].whole
           /\ \A i \in DOMAIN chart[u].links :
                Remains(u, i) => \E k \in DOMAIN c.links : c.links[k] = chart[u].links[i]
  BY RemovedFacts
<1>2. chart'[u] = c /\ chart[u].nodes \subseteq Steps /\ Silent(u)
  BY <1>1, Effects, UserFacts, ChartFacts, GoOnSilent DEF GoOn, RemoveSelected, Removed, PostLink
<1>3. work[u].task = "delete" /\ work[u].left = {}
  BY DEF RemoveSelected, Removed
<1>4. ASSUME chart[u].whole, NEW s \in c.nodes, NEW t \in c.nodes, Tells(u, s, t)'
      PROVE  Drawn(c, s, t)
  <2>1. s \in chart[u].nodes \ work[u].gone /\ t \in chart[u].nodes \ work[u].gone
    BY <1>1
  <2>2. Tells(u, s, t)
    BY <1>2, <1>4, <2>1 DEF Silent
  <2>3. PICK i \in DOMAIN chart[u].links : chart[u].links[i] = <<s, t>>
    BY <1>4, <2>1, <2>2 DEF ToldDrawn, Drawn
  <2>4. i \notin work[u].cut
    <3>1. ASSUME i \in work[u].cut PROVE FALSE
      <4>1. Untold(u, i)
        BY <1>3, <1>4, <3>1 DEF CutUntold
      <4> QED
        BY <2>1, <2>2, <2>3, <4>1 DEF Untold
    <3> QED
      BY <3>1
  <2>5. Remains(u, i)
    BY <2>1, <2>3, <2>4 DEF Remains
  <2> QED
    BY <1>1, <2>3, <2>5 DEF Drawn
<1> QED
  BY <1>1, <1>2, <1>4 DEF ToldDrawn

\* A link whose record could not be got goes from the chart and stays stored: the
\* chart is whole no more.
LEMMA FetchedEffect ==
  ASSUME NamesInv, NEW u \in Users, Fetched(u)
  PROVE  \/ chart' = chart /\ (work' = work \/ work'[u] = Free)
         \/ /\ work[u].task = "delete" /\ SkipCut(u)
            /\ ~chart'[u].whole /\ chart'[u].nodes = chart[u].nodes
            /\ chart'[u].links = chart[u].links
<1>1. CASE req[u].ok \/ work[u].task # "delete"
  BY <1>1, Effects DEF Fetched
<1>2. CASE ~req[u].ok /\ work[u].task = "delete"
  <2>1. chart'[u] = [chart[u] EXCEPT !.whole = FALSE]
    <3>1. chart' = [chart EXCEPT ![u].whole = FALSE]
      BY <1>2 DEF Fetched
    <3> QED
      BY <3>1, UserFacts DEF DesignerTypeOK
  <2>2. ~chart'[u].whole /\ chart'[u].nodes = chart[u].nodes /\ chart'[u].links = chart[u].links
    BY <2>1, ChartFacts, UserFacts
  <2> QED
    BY <1>2, <2>2 DEF Fetched
<1> QED
  BY <1>1, <1>2

LEMMA ToldFetched ==
  ASSUME NamesInv, NEW u \in Users, ToldDrawn(u), Fetched(u)
  PROVE  ToldDrawn(u)'
<1>1. Silent(u)
  <2>1. ~PostLink(u)
    <3>1. req[u].op = "reply" /\ (PostLink(u) => req[u] = Idle)
      BY DEF Fetched, PostLink
    <3> QED
      BY <3>1 DEF Idle
  <2> QED
    BY <2>1, GoOnSilent DEF GoOn
<1>2. chart' = chart \/ ~chart'[u].whole
  BY FetchedEffect
<1> QED
  BY <1>1, <1>2, ToldKept DEF ToldDrawn

-----------------------------------------------------------------------------
\* A deletion that is where it was, on a chart that stays as it is.
LEMMA CutKept ==
  ASSUME NamesInv, NEW u \in Users, CutUntold(u), Silent(u), panel' = panel, chart' = chart,
         \/ work'[u] = work[u]
         \/ /\ work[u].task = "delete" /\ work'[u].task = "delete" /\ work'[u].left = work[u].left
            /\ work'[u].gone = work[u].gone /\ work'[u].cut = work[u].cut
  PROVE  CutUntold(u)'
<1>1. CASE work'[u].task # "delete"
  BY <1>1 DEF CutUntold
<1>2. CASE work'[u].task = "delete"
  <2>1. /\ work[u].task = "delete" /\ work'[u].left = work[u].left
        /\ work'[u].gone = work[u].gone /\ work'[u].cut = work[u].cut
    BY <1>2
  <2>2. ASSUME chart[u].whole, NEW i \in work[u].cut \ work[u].left PROVE Untold(u, i)'
    <3>1. i \in DOMAIN chart[u].links /\ chart[u].links \in Seq(Link)
      BY <2>1, UserFacts, ChartFacts DEF KnownUser, KnownWork
    <3>2. chart[u].links[i][1] \in Steps /\ chart[u].links[i][2] \in Steps
      BY <3>1 DEF Link
    <3>3. Untold(u, i)
      BY <2>1, <2>2 DEF CutUntold
    <3> QED
      BY <2>1, <3>2, <3>3 DEF Untold, Silent
  <2>3. /\ work[u].left \subseteq work[u].cut
        /\ panel[u] # NoPanel => work[u].cut = {} \/ work[u].gone = chart[u].nodes
    BY <2>1 DEF CutUntold
  <2> QED
    BY <2>1, <2>2, <2>3 DEF CutUntold
<1> QED
  BY <1>1, <1>2

\* What is posted is written and answered.
LEMMA PostedServed ==
  ASSUME NamesInv, NEW u \in Users, NEW from, NEW to, Posted(u, from, to),
         req[u].op \in {"update", "reply"}, Serve(u) \/ Fail(u)
  PROVE  Posted(u, from, to)'
<1>1. CASE Update(u)
  <2>1. \/ /\ rows'[req[u].id].next = req[u].next
           /\ Answered(u, req[u].id, req[u].next)
        \/ Refused(u)
    BY <1>1, UpdateEffect
  <2>2. req[u].id = from /\ to \notin Ids(req[u].next)
    BY <1>1 DEF Update, Posted
  <2> QED
    BY <2>1, <2>2 DEF Posted, Answered, Refused
<1>2. CASE Fail(u)
  <2>1. Refused(u)
    BY <1>2, AnswerEffects DEF Fail
  <2> QED
    BY <2>1 DEF Posted, Refused
<1>3. Update(u) \/ Fail(u)
  BY DEF Serve, Get, InsertChild, Adopt, Clone, Rewire, Flag
<1> QED
  BY <1>1, <1>2, <1>3

\* The link that is being removed is one of the chart's.
LEMMA NextCutFacts ==
  ASSUME NamesInv, NEW u \in Users, work[u].task = "delete", NextCut(u) \in work[u].cut
  PROVE  /\ chart[u].links[NextCut(u)][1] \in Steps /\ chart[u].links[NextCut(u)][2] \in Steps
         /\ chart[u].links[NextCut(u)][1] \in chart[u].nodes
<1>1. NextCut(u) \in DOMAIN chart[u].links /\ chart[u].links \in Seq(Link)
  BY UserFacts, ChartFacts DEF KnownUser, KnownWork
<1> QED
  BY <1>1, UserFacts DEF Link, KnownUser, KnownChart

\* Once the answer is there, no list tells of the link any more.
LEMMA LinkCutUntold ==
  ASSUME NamesInv, NEW u \in Users, CutUntold(u), CutPosted(u), LinkCut(u), req[u].ok
  PROVE  CutUntold(u)'
<1>1. /\ work[u].task = "delete" /\ work[u].sent = "link" /\ req[u].op = "reply"
      /\ KeepAnswer(u) /\ SkipCut(u) /\ req'[u] = Idle
      /\ rows' = rows /\ chart' = chart /\ panel' = panel
  BY Effects DEF LinkCut
<1>2. /\ work'[u].task = "delete" /\ work'[u].left = work[u].left \ {NextCut(u)}
      /\ work'[u].gone = work[u].gone /\ work'[u].cut = work[u].cut
  BY <1>1, SkipCutEffect
<1>3. PICK from, to : from = chart[u].links[NextCut(u)][1] /\ to = chart[u].links[NextCut(u)][2]
  OBVIOUS
<1>4. Silent(u)
  <2>1. ~PostLink(u)
    BY <1>1 DEF PostLink
  <2> QED
    BY <2>1, GoOnSilent DEF GoOn
<1>5. ASSUME NextCut(u) \in work[u].cut, from \notin work[u].gone
      PROVE  ~Tells(u, from, to)'
  <2>1. from \in Steps /\ to \in Steps /\ from \in chart[u].nodes
    BY <1>1, <1>3, <1>5, NextCutFacts
  <2>2. panel[u] = NoPanel
    BY <1>1, <1>5, <2>1 DEF CutUntold
  <2>3. Posted(u, from, to)
    BY <1>1, <1>3 DEF CutPosted
  <2>4. req[u].id = from /\ to \notin Ids(req[u].next) /\ to \notin Ids(rows[from].next)
    BY <1>1, <2>3 DEF Posted
  <2>5. cache'[u][req[u].id].next = req[u].next
    BY <1>1, AnswerEffect
  <2>6. to \notin Ids(panel'[u].next)
    BY <1>1, <2>1, <2>2, EmptyTells DEF NoPanel
  <2>7. ~SentTells(u, from, to)'
    BY <1>1 DEF SentTells, Idle
  <2> QED
    BY <1>1, <2>4, <2>5, <2>6, <2>7 DEF Tells, RowTells, KeptTells
<1>6. ASSUME chart[u].whole, NEW i \in work'[u].cut \ work'[u].left PROVE Untold(u, i)'
  <2>1. CASE i \in work[u].left
    <3>1. i = NextCut(u) /\ i \in work[u].cut
      BY <1>2, <1>6, <2>1
    <3>2. from \notin work[u].gone => ~Tells(u, from, to)'
      BY <1>5, <3>1
    <3>3. from = chart[u].links[i][1] /\ to = chart[u].links[i][2]
      BY <1>3, <3>1
    <3> QED
      BY <1>1, <1>2, <3>2, <3>3 DEF Untold
  <2>2. CASE i \notin work[u].left
    <3>1. Untold(u, i) /\ i \in work[u].cut
      BY <1>1, <1>2, <1>6, <2>2 DEF CutUntold
    <3>2. i \in DOMAIN chart[u].links /\ chart[u].links \in Seq(Link)
      BY <1>1, <3>1, UserFacts, ChartFacts DEF KnownUser, KnownWork
    <3>3. chart[u].links[i][1] \in Steps /\ chart[u].links[i][2] \in Steps
      BY <3>2 DEF Link
    <3> QED
      BY <1>1, <1>2, <1>4, <3>1, <3>3 DEF Untold, Silent
  <2> QED
    BY <2>1, <2>2
<1>7. /\ work[u].left \subseteq work[u].cut
      /\ panel[u] # NoPanel => work[u].cut = {} \/ work[u].gone = chart[u].nodes
  BY <1>1 DEF CutUntold
<1> QED
  BY <1>1, <1>2, <1>6, <1>7 DEF CutUntold

-----------------------------------------------------------------------------
LEMMA DrawnServed ==
  ASSUME NamesInv, NEW u \in Users, Fits(u), DrawnInv(u), Serve(u) \/ Fail(u), UNCHANGED browserVars
  PROVE  DrawnInv(u)'
<1>1. Silent(u) /\ chart' = chart /\ work' = work /\ panel' = panel
  BY ServeSilent
<1>2. UntoldInv(u)'
  BY UntoldServed DEF DrawnInv
<1>3. ToldDrawn(u)'
  BY <1>1, ToldKept DEF DrawnInv
<1>4. DrawShown(u)'
  BY <1>1 DEF DrawnInv, DrawShown, Drawn
<1>5. CutUntold(u)'
  BY <1>1, CutKept DEF DrawnInv
<1>6. ASSUME work[u].task = "delete", work[u].sent = "link"
      PROVE  Posted(u, chart[u].links[NextCut(u)][1], chart[u].links[NextCut(u)][2])'
  <2>1. PICK i : i = NextCut(u)
    OBVIOUS
  <2>2. PICK from, to : from = chart[u].links[i][1] /\ to = chart[u].links[i][2]
    OBVIOUS
  <2>3. NextCut(u)' = i
    BY <1>1, <2>1 DEF NextCut
  <2>4. Posted(u, from, to) /\ req[u].op \in {"update", "reply"}
    BY <1>6, <2>1, <2>2 DEF DrawnInv, CutPosted, Fits
  <2>5. Posted(u, from, to)'
    BY <2>4, PostedServed
  <2> QED
    BY <1>1, <2>2, <2>3, <2>5
<1>7. CutPosted(u)'
  BY <1>1, <1>6 DEF CutPosted
<1> QED
  BY <1>2, <1>3, <1>4, <1>5, <1>7 DEF DrawnInv

LEMMA DrawnCommanded ==
  ASSUME NamesInv, NEW u \in Users, Fits(u), DrawnInv(u), Command(u)
  PROVE  DrawnInv(u)'
<1>0. Silent(u) /\ UntoldInv(u)' /\ ToldDrawn(u)
  BY CommandSilent, UntoldAsked DEF DrawnInv
<1>1. ASSUME ToldDrawn(u)', work'[u].task \notin {"draw", "delete"} PROVE DrawnInv(u)'
  BY <1>0, <1>1 DEF DrawnInv, DrawShown, CutUntold, CutPosted
<1>2. CASE Open(u)
  <2>1. ToldDrawn(u)'
    BY <1>2, ToldOpened
  <2>2. work'[u].task \notin {"draw", "delete"}
    BY <1>2 DEF Open, AtRest, Free
  <2> QED
    BY <1>1, <2>1, <2>2
<1>3. CASE CloseDetails(u)
  <2>1. ToldDrawn(u)'
    BY <1>0, <1>3, ToldKept DEF CloseDetails
  <2>2. work'[u].task \notin {"draw", "delete"}
    BY <1>3 DEF CloseDetails, AtRest, Free
  <2> QED
    BY <1>1, <2>1, <2>2
<1>4. CASE \/ UpdateProcessDetails(u)
           \/ \E kind \in Kinds : AddNewNode(u, kind)
           \/ \E s \in Steps : DuplicateSelected(u, s) \/ NodeDoubleClick(u, s)
  <2>1. chart' = chart
    BY <1>4 DEF UpdateProcessDetails, AddNewNode, DuplicateSelected, NodeDoubleClick
  <2>2. ToldDrawn(u)'
    BY <1>0, <2>1, ToldKept
  <2>3. work'[u].task \in {"details", "add", "duplicate", "show"}
    <3>1. CASE UpdateProcessDetails(u)
      <4>1. work'[u] = [task |-> "details"]
        BY <3>1, Effects DEF UpdateProcessDetails
      <4> QED
        BY <4>1
    <3>2. ASSUME NEW kind \in Kinds, AddNewNode(u, kind) PROVE work'[u].task = "add"
      <4>1. work'[u] = [task |-> "add", kind |-> kind]
        BY <3>2, Effects DEF AddNewNode
      <4> QED
        BY <4>1
    <3>3. ASSUME NEW s \in Steps, DuplicateSelected(u, s) PROVE work'[u].task = "duplicate"
      <4>1. work'[u] = [task |-> "duplicate"]
        BY <3>3, Effects DEF DuplicateSelected
      <4> QED
        BY <4>1
    <3>4. ASSUME NEW s \in Steps, NodeDoubleClick(u, s) PROVE work'[u].task = "show"
      <4>1. work'[u] = [task |-> "show", id |-> s]
        BY <3>4, Effects DEF NodeDoubleClick
      <4> QED
        BY <4>1
    <3> QED
      BY <1>4, <3>1, <3>2, <3>3, <3>4
  <2> QED
    BY <1>1, <2>2, <2>3
<1>5. CASE \E s, t \in Steps : DrawLink(u, s, t)
  <2>1. PICK s \in Steps, t \in Steps : DrawLink(u, s, t)
    BY <1>5
  <2>2. ToldDrawn(u)' /\ DrawShown(u)'
    BY <1>0, <2>1, ToldLinked
  <2>3. work'[u].task = "draw"
    BY <2>1, DrawLinkEffect
  <2> QED
    BY <1>0, <2>2, <2>3 DEF DrawnInv, CutUntold, CutPosted
<1>6. CASE \E nodes \in SUBSET Steps, cut \in SUBSET (1 .. MaxLinks) : DeleteSelected(u, nodes, cut)
  <2>1. PICK nodes \in SUBSET Steps, cut \in SUBSET (1 .. MaxLinks) : DeleteSelected(u, nodes, cut)
    BY <1>6
  <2>2. work'[u] = [task |-> "delete", nodes |-> nodes, left |-> cut,
                    gone |-> nodes, cut |-> cut, sent |-> "none"]
    BY <2>1, Effects DEF DeleteSelected
  <2>3. /\ work'[u].task = "delete" /\ work'[u].left = cut /\ work'[u].cut = cut
        /\ work'[u].gone = nodes /\ work'[u].sent = "none"
    BY <2>2
  <2>4. /\ chart' = chart /\ panel' = panel
        /\ panel[u] # NoPanel => cut = {} \/ nodes = chart[u].nodes
    BY <2>1 DEF DeleteSelected
  <2>5. ToldDrawn(u)'
    BY <1>0, <2>4, ToldKept
  <2>6. CutUntold(u)'
    BY <2>3, <2>4 DEF CutUntold
  <2> QED
    BY <1>0, <2>3, <2>5, <2>6 DEF DrawnInv, DrawShown, CutPosted
<1> QED
  BY <1>2, <1>3, <1>4, <1>5, <1>6 DEF Command

LEMMA DrawnWent ==
  ASSUME NamesInv, NEW u \in Users, Fits(u), DrawnInv(u), GoOn(u)
  PROVE  DrawnInv(u)'
<1>0. UntoldInv(u)' /\ ToldDrawn(u) /\ DrawShown(u) /\ CutUntold(u) /\ CutPosted(u) /\ UntoldInv(u)
  BY UntoldAsked DEF DrawnInv
<1>1. ASSUME ToldDrawn(u)', work'[u].task \notin {"draw", "delete"} PROVE DrawnInv(u)'
  BY <1>0, <1>1 DEF DrawnInv, DrawShown, CutUntold, CutPosted
<1>2. Free.task \notin {"draw", "delete"}
  BY DEF Free
<1>3. ASSUME ~PostLink(u), chart' = chart PROVE Silent(u) /\ ToldDrawn(u)'
  BY <1>0, <1>3, GoOnSilent, ToldKept
<1>4. ASSUME req[u].op = "reply" PROVE ~PostLink(u)
  <2>1. PostLink(u) => req[u] = Idle
    BY DEF PostLink
  <2> QED
    BY <1>4, <2>1 DEF Idle
<1>5. ASSUME work[u].task # "draw" PROVE ~PostLink(u)
  BY <1>5 DEF PostLink
<1>6. CASE NodeAdded(u)
  <2>1. ToldDrawn(u)'
    BY <1>0, <1>6, ToldAdded
  <2>2. work'[u] = Free
    BY <1>6, Effects DEF NodeAdded, Done
  <2> QED
    BY <1>1, <1>2, <2>1, <2>2
<1>7. CASE DetailsUpdated(u) \/ LinkPosted(u)
  <2>1. req[u].op = "reply" /\ chart' = chart /\ work'[u] = Free
    BY <1>7, Effects DEF DetailsUpdated, LinkPosted, Done
  <2>2. ToldDrawn(u)'
    BY <1>3, <1>4, <2>1
  <2> QED
    BY <1>1, <1>2, <2>1, <2>2
<1>8. CASE ShowDetails(u)
  <2>1. work[u].task # "draw" /\ chart' = chart /\ work'[u] = Free
    BY <1>8, Effects DEF ShowDetails
  <2>2. ToldDrawn(u)'
    BY <1>3, <1>5, <2>1
  <2> QED
    BY <1>1, <1>2, <2>1, <2>2
<1>9. ASSUME Fetch(u) \/ Fetched(u), work[u].task = "delete" PROVE work[u].sent = "none"
  BY <1>9 DEF Fetch, Fetched, Wanted, Cutting
<1>10. ASSUME Silent(u), chart' = chart, panel' = panel, work'[u] = work[u],
              work[u].task = "delete" => work[u].sent = "none"
       PROVE  DrawnInv(u)'
  <2>1. ToldDrawn(u)'
    BY <1>0, <1>10, ToldKept
  <2>2. CutUntold(u)'
    BY <1>0, <1>10, CutKept
  <2>3. DrawShown(u)'
    BY <1>0, <1>10 DEF DrawShown, Drawn
  <2>4. CutPosted(u)'
    BY <1>10 DEF CutPosted
  <2> QED
    BY <1>0, <2>1, <2>2, <2>3, <2>4 DEF DrawnInv
<1>11. CASE Fetch(u)
  <2>1. ASSUME PostLink(u) PROVE FALSE
    <3>1. work[u].task = "draw" /\ work[u].sent = "none" /\ Cached(u, work[u].from)
      BY <2>1 DEF PostLink
    <3>2. Wanted(u) = work[u].from
      BY <3>1 DEF Wanted, Cutting
    <3> QED
      BY <1>11, <3>1, <3>2 DEF Fetch
  <2> QED
    BY <1>3, <1>9, <1>10, <1>11, <2>1 DEF Fetch
<1>12. CASE Fetched(u)
  <2>1. ToldDrawn(u)' /\ req[u].op = "reply" /\ panel' = panel
    BY <1>0, <1>12, ToldFetched DEF Fetched
  <2>2. CASE chart' = chart /\ work' = work
    BY <1>3, <1>4, <1>9, <1>10, <1>12, <2>1, <2>2
  <2>3. CASE work'[u] = Free
    BY <1>1, <1>2, <2>1, <2>3
  <2>4. CASE /\ work[u].task = "delete" /\ SkipCut(u)
             /\ ~chart'[u].whole /\ chart'[u].nodes = chart[u].nodes
    <3>1. /\ work'[u].task = "delete" /\ work'[u].sent = "none"
          /\ work'[u].left = work[u].left \ {NextCut(u)}
          /\ work'[u].gone = work[u].gone /\ work'[u].cut = work[u].cut
      BY <2>4, SkipCutEffect
    <3>2. /\ work[u].left \subseteq work[u].cut
          /\ panel[u] # NoPanel => work[u].cut = {} \/ work[u].gone = chart[u].nodes
      BY <1>0, <2>4 DEF CutUntold
    <3>3. CutUntold(u)'
      BY <2>1, <2>4, <3>1, <3>2 DEF CutUntold
    <3> QED
      BY <1>0, <2>1, <3>1, <3>3 DEF DrawnInv, DrawShown, CutPosted
  <2> QED
    BY <1>12, <2>2, <2>3, <2>4, FetchedEffect
<1>13. CASE PostLink(u)
  <2>1. ToldDrawn(u)'
    BY <1>0, <1>13, ToldPosted
  <2>2. /\ work[u].task = "draw" /\ chart' = chart
        /\ Busy(u, [work[u] EXCEPT !.sent = "link"])
    BY <1>13 DEF PostLink, PostRecord
  <2>3. work'[u].task = "draw" /\ work'[u].from = work[u].from /\ work'[u].to = work[u].to
    BY <2>2, SentEffect
  <2>4. DrawShown(u)'
    BY <1>0, <2>2, <2>3 DEF DrawShown, Drawn
  <2> QED
    BY <1>0, <2>1, <2>3, <2>4 DEF DrawnInv, CutUntold, CutPosted
<1>14. ASSUME work[u].task = "delete", work'[u].task = "delete", work'[u].sent # "link",
              work'[u].left = work[u].left, work'[u].gone = work[u].gone,
              work'[u].cut = work[u].cut, chart' = chart, panel' = panel
       PROVE  DrawnInv(u)'
  <2>1. Silent(u) /\ ToldDrawn(u)'
    BY <1>3, <1>5, <1>14
  <2>2. CutUntold(u)'
    BY <1>0, <1>14, <2>1, CutKept
  <2> QED
    BY <1>0, <1>14, <2>1, <2>2 DEF DrawnInv, DrawShown, CutPosted
<1>15. CASE \E s \in Steps : DeleteNode(u, s)
  <2>1. PICK s \in Steps : DeleteNode(u, s)
    BY <1>15
  <2>2. /\ work'[u].task = "delete" /\ work'[u].sent = "node" /\ work'[u].left = work[u].left
        /\ work'[u].gone = work[u].gone /\ work'[u].cut = work[u].cut
        /\ UNCHANGED <<rows, starts, failures, chart, panel>>
    BY <2>1, DeleteNodeEffect
  <2>3. work[u].task = "delete"
    BY <2>1 DEF DeleteNode
  <2> QED
    BY <1>14, <2>2, <2>3
<1>16. CASE NodeDeleted(u)
  <2>1. /\ work[u].task = "delete" /\ Busy(u, [work[u] EXCEPT !.sent = "none"])
        /\ chart' = chart /\ panel' = panel
    BY <1>16 DEF NodeDeleted
  <2>2. /\ work'[u].task = "delete" /\ work'[u].sent = "none" /\ work'[u].left = work[u].left
        /\ work'[u].gone = work[u].gone /\ work'[u].cut = work[u].cut
    BY <2>1, SentEffect
  <2> QED
    BY <1>14, <2>1, <2>2
<1>17. CASE PostUnlink(u)
  <2>1. work[u].task = "delete" /\ chart' = chart /\ panel' = panel
    BY <1>17 DEF PostUnlink, Cutting
  <2>2. Silent(u) /\ ToldDrawn(u)'
    BY <1>3, <1>5, <2>1
  <2>3. ASSUME NEW s \in Steps, NEW to \in Steps, NEW next,
               s = chart[u].links[NextCut(u)][1], to = chart[u].links[NextCut(u)][2],
               PostRecord(u, s, next, TRUE),
               Ids(next) \subseteq (Ids(cache[u][s].next) \ {to}) \union {NoProcess}
        PROVE  DrawnInv(u)'
    <3>1. Busy(u, [work[u] EXCEPT !.sent = "link"])
      BY <2>3 DEF PostRecord
    <3>2. /\ work'[u].task = "delete" /\ work'[u].left = work[u].left
          /\ work'[u].gone = work[u].gone /\ work'[u].cut = work[u].cut
      BY <2>1, <3>1, SentEffect
    <3>3. CutUntold(u)'
      BY <1>0, <2>1, <2>2, <3>2, CutKept
    <3>4. /\ req'[u].op = "update" /\ req'[u].id = s /\ req'[u].next = next
      <4>1. PICK text : PostRecord(u, s, next, text)
        BY <2>3
      <4> QED
        BY <4>1, PostEffect
    <3>5. to # NoProcess
      BY DEF Steps, NoProcess
    <3>6. NextCut(u)' = NextCut(u)
      BY <3>2 DEF NextCut
    <3>7. CutPosted(u)'
      BY <2>1, <2>3, <3>4, <3>5, <3>6 DEF CutPosted, Posted
    <3> QED
      BY <1>0, <2>2, <3>2, <3>3, <3>7 DEF DrawnInv, DrawShown
  <2>4. CASE work'[u] = Free
    BY <1>1, <1>2, <2>2, <2>4
  <2> QED
    BY <1>17, <2>3, <2>4, PostUnlinkFacts
<1>18. CASE LinkCut(u)
  <2>1. req[u].op = "reply" /\ work[u].task = "delete" /\ chart' = chart
    BY <1>18 DEF LinkCut
  <2>2. ToldDrawn(u)'
    BY <1>3, <1>4, <2>1
  <2>3. CASE req[u].ok
    <3>1. CutUntold(u)'
      BY <1>0, <1>18, <2>3, LinkCutUntold
    <3>2. work'[u].task = "delete" /\ work'[u].sent = "none"
      <4>1. SkipCut(u)
        BY <1>18, <2>3 DEF LinkCut
      <4> QED
        BY <2>1, <4>1, SkipCutEffect
    <3> QED
      BY <1>0, <2>2, <3>1, <3>2 DEF DrawnInv, DrawShown, CutPosted
  <2>4. CASE ~req[u].ok
    <3>1. work'[u] = Free
      BY <1>18, <2>4, Effects DEF LinkCut
    <3> QED
      BY <1>1, <1>2, <2>2, <3>1
  <2> QED
    BY <2>3, <2>4
<1>19. CASE RemoveSelected(u)
  <2>1. ToldDrawn(u)'
    BY <1>0, <1>19, ToldRemoved
  <2>2. work'[u] = Free
    BY <1>19, Effects DEF RemoveSelected
  <2> QED
    BY <1>1, <1>2, <2>1, <2>2
<1> QED
  BY <1>6, <1>7, <1>8, <1>11, <1>12, <1>13, <1>15, <1>16, <1>17, <1>18, <1>19 DEF GoOn

-----------------------------------------------------------------------------
(***************************************************************************)
(* With one browser, whoever acts is the one.                              *)
(***************************************************************************)
OneInv ==
  IInv /\ \A u \in Users : Fits(u) /\ StartInv(u) /\ UnlinkedBy(u) /\ DrawnInv(u)

LEMMA OneStart == Init => OneInv
<1> SUFFICES ASSUME Init PROVE OneInv
  OBVIOUS
<1>1. IInv
  BY NamesStart
<1>2. ASSUME NEW u \in Users
      PROVE  /\ req[u] = Idle /\ work[u] = Free /\ panel[u] = NoPanel /\ starts = <<NoProcess>>
             /\ rows = <<>> /\ chart[u] = EmptyChart /\ cache[u] = [s \in Steps |-> NoRecord]
  BY DEF Init, CatalogInit
<1>3. Ids(<<NoProcess>>) \subseteq Starting
  BY DEF Ids, Starting
<1>4. ASSUME NEW u \in Users PROVE Fits(u)
  BY <1>2 DEF Fits, Idle, Free
<1>5. ASSUME NEW u \in Users PROVE StartInv(u) /\ UnlinkedBy(u)
  BY <1>2, <1>3 DEF StartInv, UnlinkedBy, Idle
<1>6. ASSUME NEW u \in Users PROVE DrawnInv(u)
  <2>1. ASSUME NEW s \in Steps, NEW t \in Steps PROVE ~Tells(u, s, t)
    <3>1. cache[u][s] = NoRecord
      BY <1>2
    <3>2. t \notin Ids(cache[u][s].next) /\ t \notin Ids(panel[u].next)
      BY <1>2, <3>1, EmptyTells DEF NoRecord, NoPanel
    <3>3. DOMAIN rows = {}
      BY <1>2
    <3> QED
      BY <1>2, <3>2, <3>3 DEF Tells, RowTells, KeptTells, SentTells, Idle
  <2>2. chart[u].nodes = {}
    BY <1>2 DEF EmptyChart
  <2> QED
    BY <1>2, <2>1, <2>2
       DEF DrawnInv, UntoldInv, Unmade, Coming, ToldDrawn, DrawShown, CutUntold, CutPosted, Idle, Free
<1> QED
  BY <1>1, <1>4, <1>5, <1>6 DEF OneInv

LEMMA OneStep == OneBrowser /\ OneInv /\ [Next]_vars => OneInv'
<1> SUFFICES ASSUME OneBrowser, OneInv, [Next]_vars PROVE OneInv'
  OBVIOUS
<1>0. NamesInv /\ IInv'
  BY NamesStep DEF OneInv, IInv
<1>1. ASSUME UNCHANGED vars, NEW u \in Users
      PROVE  (Fits(u) /\ StartInv(u) /\ UnlinkedBy(u) /\ DrawnInv(u))'
  <2>1. Fits(u) /\ StartInv(u) /\ UnlinkedBy(u) /\ DrawnInv(u)
    BY DEF OneInv
  <2>2. (Fits(u) /\ StartInv(u) /\ UnlinkedBy(u))'
    BY <1>1, <2>1 DEF vars, Fits, Cutting, StartInv, Starting, Live, NextOf, UnlinkedBy
  <2>3. /\ rows' = rows /\ req' = req /\ chart' = chart
        /\ cache' = cache /\ panel' = panel /\ work' = work
    BY <1>1 DEF vars
  <2>4. \A s, t \in Steps : (Tells(u, s, t))' <=> Tells(u, s, t)
    BY <2>3 DEF Tells, RowTells, KeptTells, SentTells
  <2>5. Silent(u) /\ UntoldInv(u) /\ NamesInv
    BY <1>0, <2>1, <2>4 DEF Silent, DrawnInv
  <2>6. UntoldInv(u)'
    <3>1. Unmade(u)'
      BY <2>3, <2>4, <2>5 DEF UntoldInv, Unmade
    <3>2. ASSUME Coming(u)' PROVE Fresh(u, req[u].id)'
      <4>1. Fresh(u, req[u].id)
        BY <2>3, <2>5, <3>2 DEF UntoldInv, Coming
      <4> QED
        BY <2>3, <2>5, <4>1, FreshKept
    <3> QED
      BY <3>1, <3>2 DEF UntoldInv
  <2>7. ToldDrawn(u)' /\ CutUntold(u)'
    BY <2>1, <2>3, <2>5, ToldKept, CutKept DEF DrawnInv
  <2>8. DrawShown(u)'
    BY <2>1, <2>3 DEF DrawnInv, DrawShown, Drawn
  <2>9. CutPosted(u)'
    BY <2>1, <2>3 DEF DrawnInv, CutPosted, Posted, NextCut
  <2>10. DrawnInv(u)'
    BY <2>6, <2>7, <2>8, <2>9 DEF DrawnInv
  <2> QED
    BY <2>2, <2>10
<1>2. ASSUME Next, NEW u \in Users
      PROVE  (Fits(u) /\ StartInv(u) /\ UnlinkedBy(u) /\ DrawnInv(u))'
  <2>1. \/ Command(u) \/ GoOn(u)
        \/ Service(u) \/ (Fail(u) /\ UNCHANGED browserVars)
    BY <1>2 DEF Next, OneBrowser
  <2>2. Fits(u) /\ StartInv(u) /\ UnlinkedBy(u) /\ DrawnInv(u)
    BY DEF OneInv
  <2>3. CASE Command(u)
    BY <1>0, <2>2, <2>3, CommandFits, StartsAsked, DrawnCommanded
  <2>4. CASE GoOn(u)
    BY <1>0, <2>2, <2>4, GoOnFits, StartsAsked, DrawnWent
  <2>5. CASE Service(u) \/ (Fail(u) /\ UNCHANGED browserVars)
    <3>1. (Serve(u) \/ Fail(u)) /\ UNCHANGED browserVars
      BY <2>5 DEF Service
    <3> QED
      BY <1>0, <2>2, <3>1, ServiceFits, StartsServed, DrawnServed
  <2> QED
    BY <2>1, <2>3, <2>4, <2>5
<1> QED
  BY <1>0, <1>1, <1>2 DEF OneInv

LEMMA OneHolds ==
  ASSUME OneBrowser
  PROVE  Spec => []OneInv
<1>1. Init => OneInv
  BY OneStart
<1>2. OneInv /\ [Next]_vars => OneInv'
  BY OneStep
<1> QED
  BY <1>1, <1>2, PTL DEF Spec

\* With one browser the workflow starts with live steps, also when a request for
\* a new source, or for the deletion of one, breaks off half way.
THEOREM WorkflowStartsLive ==
  ASSUME OneBrowser
  PROVE  Spec => []StartsAreLive
<1>1. OneInv => StartsAreLive
  BY CatalogAssumption DEF OneInv, StartInv, Starting, StartsAreLive
<1> QED
  BY <1>1, OneHolds, PTL

\* With one browser, when the deletion of a step is answered, no list of a live
\* step, nor that of the workflow, names the step any more.
THEOREM AnsweredDeletionUnlinks ==
  ASSUME OneBrowser
  PROVE  Spec => []DeletionUnlinks
<1>1. OneInv => DeletionUnlinks
  BY DEF OneInv, UnlinkedBy, DeletionUnlinks
<1> QED
  BY <1>1, OneHolds, PTL

\* With one browser, and as long as the page was loaded without an exception and
\* no link was removed whose record could not be got, the chart hides no link:
\* one that is stored between two of its nodes is drawn.
THEOREM NoLinkIsHidden ==
  ASSUME OneBrowser
  PROVE  Spec => []NothingHidden
<1>1. OneInv => NothingHidden
  <2>1. ASSUME OneInv, NEW u \in Users, chart[u].whole, NEW s \in chart[u].nodes,
               NEW t \in Ids(rows[s].next) \intersect chart[u].nodes
        PROVE  \E i \in DOMAIN chart[u].links : chart[u].links[i] = <<s, t>>
    <3>1. s \in DOMAIN rows
      BY <2>1, UserFacts DEF OneInv, IInv, KnownUser, KnownChart
    <3>2. Tells(u, s, t)
      BY <3>1 DEF Tells, RowTells
    <3> QED
      BY <2>1, <3>2 DEF OneInv, DrawnInv, ToldDrawn, Drawn
  <2> QED
    BY <2>1 DEF NothingHidden
<1> QED
  BY <1>1, OneHolds, PTL
=============================================================================
