-------------------------- MODULE WorkflowDesigner --------------------------
(***************************************************************************)
(* The workflow designer of the web interface (js/fc): a chart of the      *)
(* steps of a workflow and of the links between them, a cache of the       *)
(* records of the steps, and the user's commands, which change both and    *)
(* the PROCESS table behind the service of ProcessCatalog.                 *)
(*                                                                         *)
(* Requests are synchronous: a browser sends one and does nothing else     *)
(* until the answer.  A command that needs several (a link: GET and POST;  *)
(* a deletion: one DELETE for every step and a GET and a POST for every    *)
(* link) goes on with the next in "work".  An exception in the middle ends *)
(* the command where it is.                                                *)
(*                                                                         *)
(* Left out: positions, names, properties.  Start and end node are never   *)
(* drawn (their restoreNode is commented out), so the list of the          *)
(* workflow's own row is written by the service alone.                     *)
(***************************************************************************)
EXTENDS ProcessCatalog
LOCAL INSTANCE Functions

CONSTANTS
  MaxLinks,  \* bound: links on a chart
  MaxNext    \* bound: ids in a list a link is added to

ASSUME DesignerAssumption == MaxLinks \in Nat /\ MaxNext \in Nat

VARIABLES
  chart,  \* what each browser shows
  cache,  \* nodeProcessCache: the record each browser keeps of a step
  panel,  \* the record shown in the open details window
  work    \* the command each browser is busy with

browserVars == <<chart, cache, panel, work>>
vars == <<rows, starts, req, failures, chart, cache, panel, work>>

(***************************************************************************)
(* A record's next ids are a string, except after a link replaced them by  *)
(* the number of one step and the POST failed: then split() throws.        *)
(* "whole" tells that the last load drew every link it was to draw, and    *)
(* that no link was removed since whose record could not be got.           *)
(***************************************************************************)
Record == [next : Lists, text : BOOLEAN]
NoRecord == [next |-> <<>>, text |-> FALSE]
NoPanel == [id |-> NoProcess, next |-> <<>>]
Link == Steps \X Steps
Chart == [nodes : SUBSET Steps, inputs : SUBSET Steps, outputs : SUBSET Steps,
          links : Seq(Link), whole : BOOLEAN]
Free == [task |-> "none"]
Work ==
       {Free}
  \union [task : {"add"}, kind : Kinds]
  \union [task : {"duplicate", "details"}]
  \union [task : {"show"}, id : Steps]
  \union [task : {"draw"}, from : Steps, to : Steps, sent : {"none", "link"}]
  \union [task : {"delete"}, nodes : SUBSET Steps, left : SUBSET Nat,
          gone : SUBSET Steps, cut : SUBSET Nat, sent : {"none", "node", "link"}]

DesignerTypeOK ==
  /\ chart \in [Users -> Chart]
  /\ cache \in [Users -> [Steps -> Record \union {NoRecord}]]
  /\ panel \in [Users -> [id : Steps \union {NoProcess}, next : Lists]]
  /\ work \in [Users -> Work]
TypeOK == CatalogTypeOK /\ DesignerTypeOK

-----------------------------------------------------------------------------
Busy(u, task) == work' = [work EXCEPT ![u] = task]
Done(u) == Busy(u, Free) /\ Ask(u, Idle)
AtRest(u) == work[u] = Free
Cached(u, s) == cache[u][s] # NoRecord
Keep(u, s, next, text) == cache' = [cache EXCEPT ![u][s] = [next |-> next, text |-> text]]
Forget(u, s) == cache' = [cache EXCEPT ![u][s] = NoRecord]

\* processAC, POST: what is kept is what the service returned.
KeepAnswer(u) == Keep(u, req[u].id, req[u].next, TRUE)

Pending == Cardinality({u \in Users : work[u].task \in {"add", "duplicate"}})
Room == Len(rows) + Pending < MaxSteps

-----------------------------------------------------------------------------
(***************************************************************************)
(* init, initProps, restoreNode: nodes for the live steps, then the links, *)
(* list by list.  A next id that is no node, or cannot be linked to, throws *)
(* and leaves the links behind it undrawn.                                 *)
(***************************************************************************)
HasInput(s)  == rows[s].kind # "source"
HasOutput(s) == rows[s].kind # "persistentStore"
\* The elements of a finite set in an order: the k-th is the one k - 1 others precede.
InOrder(S, order) ==
  [k \in 1 .. Cardinality(S) |->
     CHOOSE x \in S : Cardinality({y \in S : <<y, x>> \in order}) = k - 1]
Before == {pair \in Nat \X Nat : pair[1] < pair[2]}
PlaceBefore ==
  {pair \in (Nat \X Nat) \X (Nat \X Nat) :
     LET p == pair[1]
         q == pair[2]
     IN  p[1] < q[1] \/ (p[1] = q[1] /\ p[2] < q[2])}

\* The elements of a list at some of its places.
At(list, places) ==
  LET order == InOrder(places, Before) IN [k \in DOMAIN order |-> list[order[k]]]
Without(list, x) == At(list, {i \in DOMAIN list : list[i] # x})

\* A place is a step and a place in its list.
ArrowPlaces ==
  UNION {{<<s, i>> : i \in {k \in DOMAIN rows[s].next : rows[s].next[k] # Parent}} : s \in Live}
AllArrows ==
  LET place == InOrder(ArrowPlaces, PlaceBefore)
  IN  [k \in DOMAIN place |-> <<place[k][1], rows[place[k][1]].next[place[k][2]]>>]
CanDraw(a) == a[2] \in Live /\ HasInput(a[2]) /\ HasOutput(a[1])
DrawnArrows ==
  [i \in {k \in DOMAIN AllArrows : \A n \in 1 .. k : CanDraw(AllArrows[n])} |-> AllArrows[i]]

Open(u) ==
  /\ AtRest(u)
  /\ chart' = [chart EXCEPT ![u] =
       [nodes |-> Live, inputs |-> {s \in Live : HasInput(s)},
        outputs |-> {s \in Live : HasOutput(s)}, links |-> DrawnArrows,
        whole |-> DOMAIN DrawnArrows = DOMAIN AllArrows]]
  /\ cache' = [cache EXCEPT ![u] =
       [s \in Steps |-> IF s \in Live THEN [next |-> rows[s].next, text |-> TRUE]
                                      ELSE NoRecord]]
  /\ panel' = [panel EXCEPT ![u] = NoPanel]
  /\ UNCHANGED <<rows, starts, req, failures, work>>

-----------------------------------------------------------------------------
(***************************************************************************)
(* New nodes.  A copy gets both connectors, whatever its type.             *)
(***************************************************************************)
AddNewNode(u, kind) ==
  /\ AtRest(u) /\ panel[u] = NoPanel /\ Room
  /\ Ask(u, [op |-> "insert", kind |-> kind, read |-> starts])
  /\ Busy(u, [task |-> "add", kind |-> kind])
  /\ UNCHANGED <<rows, starts, failures, chart, cache, panel>>

DuplicateSelected(u, s) ==
  /\ AtRest(u) /\ panel[u] = NoPanel /\ Room
  /\ s \in chart[u].nodes
  /\ Ask(u, [op |-> "clone", id |-> s])
  /\ Busy(u, [task |-> "duplicate"])
  /\ UNCHANGED <<rows, starts, failures, chart, cache, panel>>

AddNode(u, s, input, output) ==
  chart' = [chart EXCEPT ![u].nodes = @ \union {s},
                         ![u].inputs = IF input THEN @ \union {s} ELSE @,
                         ![u].outputs = IF output THEN @ \union {s} ELSE @]
NodeAdded_Refused(u) ==   \* mutant: the answer is not looked at
  /\ work[u].task \in {"add", "duplicate"}
  /\ req[u].op = "reply"
  /\ AddNode(u, req[u].id, TRUE, TRUE)
  /\ Done(u)
  /\ UNCHANGED <<rows, starts, failures, cache, panel>>
NodeAdded(u) ==
  /\ work[u].task \in {"add", "duplicate"}
  /\ req[u].op = "reply"
  /\ IF ~req[u].ok THEN UNCHANGED <<chart, cache>>
     ELSE IF work[u].task = "add"
     THEN /\ AddNode(u, req[u].id, work[u].kind # "source", work[u].kind # "persistentStore")
          /\ KeepAnswer(u)
     ELSE AddNode(u, req[u].id, TRUE, TRUE) /\ UNCHANGED cache
  /\ Done(u)
  /\ UNCHANGED <<rows, starts, failures, panel>>

-----------------------------------------------------------------------------
(***************************************************************************)
(* The record a command needs comes from the cache, or else from the       *)
(* service.  Without it a link that was drawn stays unsaved, a link that   *)
(* is removed stays saved.                                                 *)
(***************************************************************************)
NextCut(u) == CHOOSE i \in work[u].left : \A k \in work[u].left : i <= k
Cutting(u) == /\ work[u].task = "delete" /\ work[u].sent = "none"
              /\ work[u].nodes = {} /\ work[u].left # {}
Wanted(u) ==
  CASE work[u].task = "show" -> work[u].id
    [] work[u].task = "draw" /\ work[u].sent = "none" -> work[u].from
    [] Cutting(u) -> chart[u].links[NextCut(u)][1]
    [] OTHER -> NoProcess

Fetch(u) ==
  /\ req[u] = Idle /\ Wanted(u) # NoProcess
  /\ ~Cached(u, Wanted(u))
  /\ Ask(u, [op |-> "get", id |-> Wanted(u)])
  /\ UNCHANGED <<rows, starts, failures, chart, cache, panel, work>>

SkipCut(u) == Busy(u, [work[u] EXCEPT !.left = @ \ {NextCut(u)}, !.sent = "none"])
Fetched(u) ==
  /\ req[u].op = "reply" /\ Wanted(u) # NoProcess /\ ~Cached(u, Wanted(u))
  /\ IF req[u].ok THEN KeepAnswer(u) /\ UNCHANGED <<work, chart>>
     ELSE IF work[u].task # "delete" THEN Busy(u, Free) /\ UNCHANGED <<cache, chart>>
     ELSE /\ SkipCut(u)
          /\ chart' = [chart EXCEPT ![u].whole = FALSE]
          /\ UNCHANGED cache
  /\ Ask(u, Idle)
  /\ UNCHANGED <<rows, starts, failures, panel>>

\* The POST of a changed record.  The record in the cache is the one changed.
PostRecord(u, s, next, text) ==
  /\ Keep(u, s, next, text)
  /\ Ask(u, [op |-> "update", id |-> s, next |-> next])
  /\ Busy(u, [work[u] EXCEPT !.sent = "link"])

-----------------------------------------------------------------------------
(***************************************************************************)
(* connectorMouseDown, dragEnded: a link drawn from an output connector to *)
(* a connector that is no output of its node, of another node.             *)
(***************************************************************************)
DrawLink(u, from, to) ==
  /\ AtRest(u) /\ panel[u] = NoPanel
  /\ Len(chart[u].links) < MaxLinks /\ Len(cache[u][from].next) < MaxNext
  /\ from \in chart[u].outputs /\ to \in chart[u].inputs /\ from # to
  /\ chart' = [chart EXCEPT ![u].links = Append(@, <<from, to>>)]
  /\ Busy(u, [task |-> "draw", from |-> from, to |-> to, sent |-> "none"])
  /\ UNCHANGED <<rows, starts, req, failures, cache, panel>>

PostLink(u) ==
  /\ work[u].task = "draw" /\ work[u].sent = "none"
  /\ req[u] = Idle /\ Cached(u, work[u].from)
  /\ LET next == cache[u][work[u].from].next
     IN  IF next \in {<<Parent>>, <<NoProcess>>}
         THEN PostRecord(u, work[u].from, <<work[u].to>>, FALSE)
         ELSE PostRecord(u, work[u].from, Append(next, work[u].to), TRUE)
  /\ UNCHANGED <<rows, starts, failures, chart, panel>>

LinkPosted(u) ==
  /\ work[u].task = "draw" /\ work[u].sent = "link" /\ req[u].op = "reply"
  /\ IF req[u].ok THEN KeepAnswer(u) ELSE UNCHANGED cache
  /\ Done(u)
  /\ UNCHANGED <<rows, starts, failures, chart, panel>>

-----------------------------------------------------------------------------
(***************************************************************************)
(* deleteSelected.  The selection is made by clicks; while the details     *)
(* window covers the chart it is that window's node, or everything.        *)
(***************************************************************************)
DeleteSelected(u, nodes, cut) ==
  /\ AtRest(u)
  /\ nodes \subseteq chart[u].nodes /\ cut \subseteq DOMAIN chart[u].links
  /\ nodes # {} \/ cut # {}
  /\ panel[u] # NoPanel => \/ nodes = {panel[u].id} /\ cut = {}
                           \/ nodes = chart[u].nodes /\ cut = DOMAIN chart[u].links
  /\ Busy(u, [task |-> "delete", nodes |-> nodes, left |-> cut,
              gone |-> nodes, cut |-> cut, sent |-> "none"])
  /\ UNCHANGED <<rows, starts, req, failures, chart, cache, panel>>

DeleteNode(u, s) ==
  /\ work[u].task = "delete" /\ s \in work[u].nodes
  /\ req[u] = Idle
  /\ Ask(u, [op |-> "delete", id |-> s, todo |-> Neighbours(s)])
  /\ Busy(u, [work[u] EXCEPT !.nodes = @ \ {s}, !.sent = "node"])
  /\ Forget(u, s)
  /\ UNCHANGED <<rows, starts, failures, chart, panel>>

\* Answered or refused: an alert, and on with the next.
NodeDeleted(u) ==
  /\ work[u].task = "delete" /\ work[u].sent = "node" /\ req[u].op = "reply"
  /\ Busy(u, [work[u] EXCEPT !.sent = "none"])
  /\ Ask(u, Idle)
  /\ UNCHANGED <<rows, starts, failures, chart, cache, panel>>

\* The list without the link's end.  The parent's id, a number, is never found
\* among strings: splice(-1, 1) takes the last of the other ids away as well.
Unlinked_Kept(next, to) ==   \* mutant: the step stays in its predecessor's list
  LET others == Without(next, to)
      left == SubSeq(others, 1, Len(others) - 1)
  IN  IF left = <<>> THEN next ELSE left
Unlinked(next, to) ==
  LET others == Without(next, to)
      left == SubSeq(others, 1, Len(others) - 1)
  IN  IF left = <<>> THEN <<NoProcess>> ELSE left

PostUnlink(u) ==
  /\ Cutting(u) /\ req[u] = Idle /\ Cached(u, Wanted(u))
  /\ LET s == Wanted(u)
         record == cache[u][s]
     IN  IF record.text
         THEN PostRecord(u, s, Unlinked(record.next, chart[u].links[NextCut(u)][2]), TRUE)
         ELSE Busy(u, Free) /\ UNCHANGED <<req, cache>>   \* split() throws
  /\ UNCHANGED <<rows, starts, failures, chart, panel>>

LinkCut(u) ==
  /\ work[u].task = "delete" /\ work[u].sent = "link" /\ req[u].op = "reply"
  /\ IF req[u].ok THEN KeepAnswer(u) /\ SkipCut(u)
                  ELSE Busy(u, Free) /\ UNCHANGED cache
  /\ Ask(u, Idle)
  /\ UNCHANGED <<rows, starts, failures, chart, panel>>

\* chartViewModel.deleteSelected: what was selected goes, and the links of the
\* nodes that go, whatever the service said.
Remains_Source(u, i) ==   \* mutant: links to a node that goes are kept
  LET link == chart[u].links[i]
  IN  i \notin work[u].cut /\ link[1] \notin work[u].gone
Remains(u, i) ==
  LET link == chart[u].links[i]
  IN  /\ i \notin work[u].cut
      /\ link[1] \notin work[u].gone /\ link[2] \notin work[u].gone
Removed(u) == /\ work[u].task = "delete" /\ work[u].sent = "none"
              /\ work[u].nodes = {} /\ work[u].left = {}
RemoveSelected(u) ==
  /\ Removed(u)
  /\ chart' = [chart EXCEPT
       ![u].nodes = @ \ work[u].gone, ![u].inputs = @ \ work[u].gone,
       ![u].outputs = @ \ work[u].gone,
       ![u].links = At(@, {i \in DOMAIN @ : Remains(u, i)})]
  /\ Busy(u, Free)
  /\ UNCHANGED <<rows, starts, req, failures, cache, panel>>

-----------------------------------------------------------------------------
(***************************************************************************)
(* The details window: nodeDoubleClick shows the record, updateProcess-    *)
(* Details posts it with a new name.  It keeps the record it was opened    *)
(* with when the step is deleted behind it.                                *)
(***************************************************************************)
NodeDoubleClick(u, s) ==
  /\ AtRest(u) /\ panel[u] = NoPanel
  /\ s \in chart[u].nodes
  /\ Busy(u, [task |-> "show", id |-> s])
  /\ UNCHANGED <<rows, starts, req, failures, chart, cache, panel>>

ShowDetails(u) ==
  /\ work[u].task = "show" /\ req[u] = Idle /\ Cached(u, work[u].id)
  /\ panel' = [panel EXCEPT ![u] = [id |-> work[u].id, next |-> cache[u][work[u].id].next]]
  /\ Busy(u, Free)
  /\ UNCHANGED <<rows, starts, req, failures, chart, cache>>

UpdateProcessDetails(u) ==
  /\ AtRest(u) /\ panel[u] # NoPanel
  /\ Ask(u, [op |-> "update", id |-> panel[u].id, next |-> panel[u].next])
  /\ Busy(u, [task |-> "details"])
  /\ UNCHANGED <<rows, starts, failures, chart, cache, panel>>

DetailsUpdated(u) ==
  /\ work[u].task = "details" /\ req[u].op = "reply"
  /\ IF req[u].ok THEN KeepAnswer(u) ELSE UNCHANGED cache
  /\ Done(u)
  /\ UNCHANGED <<rows, starts, failures, chart, panel>>

CloseDetails(u) ==
  /\ AtRest(u) /\ panel[u] # NoPanel
  /\ panel' = [panel EXCEPT ![u] = NoPanel]
  /\ UNCHANGED <<rows, starts, req, failures, chart, cache, work>>

-----------------------------------------------------------------------------
EmptyChart == [nodes |-> {}, inputs |-> {}, outputs |-> {}, links |-> <<>>, whole |-> TRUE]
Init ==
  /\ CatalogInit
  /\ chart = [u \in Users |-> EmptyChart]
  /\ cache = [u \in Users |-> [s \in Steps |-> NoRecord]]
  /\ panel = [u \in Users |-> NoPanel]
  /\ work = [u \in Users |-> Free]

Command(u) ==
  \/ Open(u) \/ UpdateProcessDetails(u) \/ CloseDetails(u)
  \/ \E kind \in Kinds : AddNewNode(u, kind)
  \/ \E s \in Steps : DuplicateSelected(u, s) \/ NodeDoubleClick(u, s)
  \/ \E s, t \in Steps : DrawLink(u, s, t)
  \/ \E nodes \in SUBSET Steps, cut \in SUBSET (1 .. MaxLinks) : DeleteSelected(u, nodes, cut)

GoOn(u) ==
  \/ NodeAdded(u) \/ Fetch(u) \/ Fetched(u) \/ ShowDetails(u) \/ DetailsUpdated(u)
  \/ PostLink(u) \/ LinkPosted(u)
  \/ \E s \in Steps : DeleteNode(u, s)
  \/ NodeDeleted(u) \/ PostUnlink(u) \/ LinkCut(u) \/ RemoveSelected(u)

Service(u) == Serve(u) /\ UNCHANGED browserVars
Next == \E u \in Users : \/ Command(u) \/ GoOn(u) \/ Service(u)
                         \/ Fail(u) /\ UNCHANGED browserVars

Spec == Init /\ [][Next]_vars

-----------------------------------------------------------------------------
(***************************************************************************)
(* Whatever the browsers do.                                               *)
(***************************************************************************)

\* Next ids are text and no foreign key guards them; still every list, in the
\* table, on its way or kept by a browser, names only steps that were made, and
\* every link joins two nodes of its chart.
Known(list) == Ids(list) \subseteq DOMAIN rows \union {NoProcess, Parent, Blank}
NamesExist ==
  /\ Known(starts) /\ \A s \in DOMAIN rows : Known(rows[s].next)
  /\ \A u \in Users : \A s \in Steps : Known(cache[u][s].next)
ChartClosed ==
  \A u \in Users : \A i \in DOMAIN chart[u].links :
    chart[u].links[i][1] \in chart[u].nodes /\ chart[u].links[i][2] \in chart[u].nodes

(***************************************************************************)
(* One browser.                                                            *)
(***************************************************************************)

\* The workflow starts with live steps, also when a request for a new source or
\* for the deletion of one breaks off half way (the row is flagged last).
StartsAreLive == Ids(starts) \subseteq Live \union {NoProcess, Blank}

\* When a deletion is answered, no list of a live step names the step any more.
DeletionUnlinks ==
  \A u \in Users : req[u].op = "reply" /\ req[u].ok /\ work[u].task = "delete"
                      /\ work[u].sent = "node" =>
    \A p \in Live \union {Parent} : req[u].id \notin Ids(NextOf(p))

\* As long as the page was loaded without an exception, and no link was removed
\* whose record could not be got, the chart hides no link: one stored between two
\* of its nodes is drawn.  Stale records, refused lists, ids lost on removal,
\* requests that fail and deletions broken off half way do not break this.
NothingHidden ==
  \A u \in Users : chart[u].whole =>
    \A s \in chart[u].nodes : \A t \in Ids(rows[s].next) \intersect chart[u].nodes :
      \E i \in DOMAIN chart[u].links : chart[u].links[i] = <<s, t>>

(***************************************************************************)
(* What a comment says and the code does not do.                           *)
(***************************************************************************)

\* "Remove connections that are selected": of links that all differ, those a
\* finished removal leaves on the chart are still stored, unless a request failed.
DrawnIsStored ==
  failures = 0 => \A u \in Users : Removed(u) /\ IsInjective(chart[u].links) =>
    \A i \in DOMAIN chart[u].links :
      Remains(u, i) => chart[u].links[i][2] \in Ids(rows[chart[u].links[i][1]].next)
=============================================================================
