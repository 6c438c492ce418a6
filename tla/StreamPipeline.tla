--------------------------- MODULE StreamPipeline ---------------------------
(***************************************************************************)
(* How the driver of a streaming job (StreamAnalyticsDriver) turns the     *)
(* steps of the job into a Spark pipeline.  It first follows the next ids  *)
(* from the sources to collect the inputs of every step (identifyFlows),   *)
(* then walks the graph from each source, depth first, and sets up each    *)
(* step it comes to (transformAndEmit).  The recursion is kept as a stack  *)
(* of frames: the next ids a call has still to visit.                      *)
(*                                                                         *)
(* The driver's static parentProcessId is never assigned (main has a local *)
(* of the same name), so the code that counts covered emitters never runs  *)
(* and is not here.                                                        *)
(***************************************************************************)
EXTENDS Integers, Sequences, FiniteSets

CONSTANTS
  Parent,     \* process id of the streaming job
  Sources,    \* its steps of a type source_...
  Operators,  \* operator_...
  Sinks,      \* emitter_... and persistentStore_...
  Graphs      \* the next ids the steps may have been given

Steps == Sources \union Operators \union Sinks
Pids == Steps \union {Parent}

ASSUME PipelineAssumption ==
  /\ IsFiniteSet(Steps) /\ Parent \notin Steps
  /\ Sources \intersect (Operators \union Sinks) = {}
  /\ Operators \intersect Sinks = {}
  /\ Graphs \subseteq [Steps -> Seq(Operators \union Sinks \union {Parent}) \ {<<>>}]

VARIABLES
  next,      \* nextPidMap: for each step its NEXT_PROCESS_ID list
  phase,     \* "flows", "emit", "started" (the streaming context) or "failed"
  upstream,  \* currentUpstreamList
  prev,      \* prevMap: the inputs found for each process
  toEmit,    \* the sources invokeDStreamOperations has not come to
  stack,     \* the calls of transformAndEmit, innermost first
  ran        \* the steps set up so far, in order

vars == <<next, phase, upstream, prev, toEmit, stack, ran>>

Elements(s) == {s[i] : i \in DOMAIN s}

TypeOK ==
  /\ next \in Graphs
  /\ phase \in {"flows", "emit", "started", "failed"}
  /\ upstream \in SUBSET Steps
  /\ prev \in [Pids -> SUBSET Steps]
  /\ toEmit \in SUBSET Sources
  /\ stack \in Seq(Seq(Pids))
  /\ ran \in Seq(Pids)

-----------------------------------------------------------------------------
\* One round of identifyFlows: the next ids of the upstream steps get them as
\* inputs and are the upstream steps of the next round.  On a graph with a
\* cycle there is always a next round.
WithInputs(S) == [p \in Pids |-> prev[p] \union {s \in S : p \in Elements(next[s])}]
NextUpstream_KeepsAll(S) ==   \* mutant: the list is not cleared
  S \union ((UNION {Elements(next[s]) : s \in S}) \ {Parent})
NextUpstream(S) == (UNION {Elements(next[s]) : s \in S}) \ {Parent}

IdentifyFlows ==
  /\ phase = "flows" /\ upstream # {}
  /\ prev' = WithInputs(upstream)
  /\ upstream' = NextUpstream(upstream)
  /\ UNCHANGED <<next, phase, toEmit, stack, ran>>

FlowsIdentified ==
  /\ phase = "flows" /\ upstream = {}
  /\ phase' = "emit"
  /\ UNCHANGED <<next, upstream, prev, toEmit, stack, ran>>

-----------------------------------------------------------------------------
\* The steps with an entry in transformedDStreamMap; a sink never has one.
Transformed(done) == Elements(done) \intersect (Sources \union Operators)

\* transformAndEmit returns at once when an input of any step in the list is
\* missing: none of the list is visited then.
Ready_AnyInput(list, done) ==   \* mutant: one input is enough
  \A p \in Elements(list) : prev[p] \intersect Transformed(done) # {}
Ready(list, done) == \A p \in Elements(list) : prev[p] \subseteq Transformed(done)
Called(list, done, frames) == IF Ready(list, done) THEN <<list>> \o frames ELSE frames

\* The next source of invokeDStreamOperations, in the order of a hash map.
EmitSource_PutLast(s) ==   \* mutant: transformAndEmit called before the put
  /\ phase = "emit" /\ stack = <<>> /\ s \in toEmit
  /\ toEmit' = toEmit \ {s}
  /\ ran' = Append(ran, s)
  /\ stack' = Called(next[s], ran, stack)
  /\ UNCHANGED <<next, phase, upstream, prev>>
EmitSource(s) ==
  /\ phase = "emit" /\ stack = <<>> /\ s \in toEmit
  /\ toEmit' = toEmit \ {s}
  /\ ran' = Append(ran, s)
  /\ stack' = Called(next[s], ran', stack)
  /\ UNCHANGED <<next, phase, upstream, prev>>

\* The innermost call sets up the next step of its list and calls itself for
\* the steps after that one.
Visit ==
  /\ phase = "emit" /\ stack # <<>> /\ Head(stack) # <<>>
  /\ LET p == Head(Head(stack))
         rest == <<Tail(Head(stack))>> \o Tail(stack)
     IN  /\ p # Parent
         /\ ran' = Append(ran, p)
         /\ stack' = Called(next[p], ran', rest)
  /\ UNCHANGED <<next, phase, upstream, prev, toEmit>>

\* When only operators lead to the job itself, the call for the job looks for
\* the inputs of the steps after it, the sources; they have none, and the
\* null pointer fails the driver.
VisitParent ==
  /\ phase = "emit" /\ stack # <<>> /\ Head(stack) # <<>>
  /\ Head(Head(stack)) = Parent
  /\ phase' = "failed"
  /\ UNCHANGED <<next, upstream, prev, toEmit, stack, ran>>

Return ==
  /\ phase = "emit" /\ stack # <<>> /\ Head(stack) = <<>>
  /\ stack' = Tail(stack)
  /\ UNCHANGED <<next, phase, upstream, prev, toEmit, ran>>

StartContext ==
  /\ phase = "emit" /\ stack = <<>> /\ toEmit = {}
  /\ phase' = "started"
  /\ UNCHANGED <<next, upstream, prev, toEmit, stack, ran>>

\* Whatever a source, operator or sink throws ends the driver.
Throw ==
  /\ phase = "emit"
  /\ phase' = "failed"
  /\ UNCHANGED <<next, upstream, prev, toEmit, stack, ran>>

-----------------------------------------------------------------------------
Init ==
  /\ next \in Graphs
  /\ phase = "flows"
  /\ upstream = Sources
  /\ prev = [p \in Pids |-> {}]
  /\ toEmit = Sources
  /\ stack = <<>>
  /\ ran = <<>>

Next ==
  \/ IdentifyFlows \/ FlowsIdentified
  \/ \E s \in Sources : EmitSource(s)
  \/ Visit \/ VisitParent \/ Return \/ StartContext \/ Throw

\* The driver is one thread of a running program.
Spec == Init /\ [][Next]_vars /\ WF_vars(Next)

-----------------------------------------------------------------------------
(***************************************************************************)
(* Properties, for every graph.                                            *)
(***************************************************************************)

\* No step is set up twice, however many paths lead to it: a sink set up twice
\* would store every message twice.
RunsOnce == \A i, k \in DOMAIN ran : ran[i] = ran[k] => i = k

\* A step is set up after all steps that lead to it from a source, so no
\* operator joins, and no sink stores, a stream that is not there yet.
InputsFirst ==
  \A i \in DOMAIN ran : \A s \in Steps :
    (ran[i] \in Elements(next[s]) /\ (s \in Sources \/ prev[s] # {}))
      => \E k \in DOMAIN ran : k < i /\ ran[k] = s

\* A pipeline that starts contains every step that can be reached, provided
\* the steps listed together have the same inputs.  Without that the driver
\* leaves steps out and says nothing: a step whose inputs are complete is
\* skipped when one listed with it has to wait.
Together ==
  \A s \in Steps : \A p, q \in Elements(next[s]) : prev[p] = prev[q]
SinksLast == \A s \in Sinks : next[s] = <<Parent>>
Coverage ==
  phase = "started" /\ Together /\ SinksLast =>
    \A p \in Steps : prev[p] # {} => p \in Elements(ran)

\* The driver decides on every graph without a cycle.
Feeds(S) == {p \in Steps : \E s \in S : p \in Elements(next[s])}
Acyclic == \A S \in SUBSET Steps : S # {} => ~(S \subseteq Feeds(S))
Decides == Acyclic ~> phase \in {"started", "failed"}

=============================================================================
