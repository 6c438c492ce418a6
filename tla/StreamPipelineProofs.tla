----------------------- MODULE StreamPipelineProofs -------------------------
(***************************************************************************)
(* The order in which the driver sets up the steps, for every graph: an    *)
(* argument about the walk, where TLC tries the graphs of five steps.      *)
(*                                                                         *)
(* A call of transformAndEmit goes on only when the inputs of all the      *)
(* steps it was given are set up, and what it still has to visit keeps     *)
(* that (ReadyFrames).  As the inputs of a step include the one it was     *)
(* reached from, which is set up right before the call, no step that was   *)
(* set up or is waiting in an outer call can be in the list (Unvisited).   *)
(***************************************************************************)
EXTENDS StreamPipeline, FiniteSetTheorems, WellFoundedInduction, TLAPS

LEMMA ElementsOfAppend ==
  ASSUME NEW S, NEW s \in Seq(S), NEW x \in S
  PROVE  /\ Append(s, x) \in Seq(S)
         /\ Len(Append(s, x)) = Len(s) + 1 /\ Append(s, x)[Len(s) + 1] = x
         /\ \A i \in DOMAIN s : Append(s, x)[i] = s[i]
         /\ Elements(Append(s, x)) = Elements(s) \union {x}
<1>1. /\ Append(s, x) \in Seq(S) /\ Len(s) \in Nat
      /\ DOMAIN s = 1 .. Len(s) /\ DOMAIN Append(s, x) = 1 .. Len(s) + 1
      /\ Len(Append(s, x)) = Len(s) + 1 /\ Append(s, x)[Len(s) + 1] = x
      /\ \A i \in DOMAIN s : Append(s, x)[i] = s[i]
  OBVIOUS
<1>2. ASSUME NEW i \in DOMAIN Append(s, x) PROVE Append(s, x)[i] \in Elements(s) \union {x}
  BY <1>1 DEF Elements
<1>3. ASSUME NEW i \in DOMAIN s PROVE s[i] \in Elements(Append(s, x))
  BY <1>1 DEF Elements
<1>4. x \in Elements(Append(s, x))
  BY <1>1 DEF Elements
<1>5. Elements(Append(s, x)) \subseteq Elements(s) \union {x}
  BY <1>2 DEF Elements
<1>6. Elements(s) \subseteq Elements(Append(s, x))
  BY <1>3 DEF Elements
<1> QED
  BY <1>1, <1>4, <1>5, <1>6

LEMMA ElementsOfTail ==
  ASSUME NEW S, NEW s \in Seq(S), s # <<>>
  PROVE  /\ Head(s) \in S /\ Tail(s) \in Seq(S)
         /\ Head(s) \in Elements(s) /\ Elements(Tail(s)) \subseteq Elements(s)
<1>1. Len(s) \in Nat /\ Len(s) > 0 /\ DOMAIN s = 1 .. Len(s) /\ Head(s) = s[1]
  OBVIOUS
<1>2. Tail(s) \in Seq(S) /\ DOMAIN Tail(s) = 1 .. Len(s) - 1
      /\ \A i \in 1 .. Len(s) - 1 : Tail(s)[i] = s[i + 1]
  BY <1>1
<1>3. \A i \in 1 .. Len(s) - 1 : i + 1 \in 1 .. Len(s)
  BY <1>1
<1> QED
  BY <1>1, <1>2, <1>3 DEF Elements

\* The stack with one more call.
LEMMA Pushed ==
  ASSUME NEW list \in Seq(Pids), NEW frames \in Seq(Seq(Pids))
  PROVE  /\ <<list>> \o frames \in Seq(Seq(Pids))
         /\ DOMAIN (<<list>> \o frames) = 1 .. Len(frames) + 1
         /\ (<<list>> \o frames)[1] = list
         /\ \A i \in 2 .. Len(frames) + 1 : (<<list>> \o frames)[i] = frames[i - 1]
  OBVIOUS

LEMMA GraphFacts ==
  ASSUME next \in Graphs, NEW s \in Steps
  PROVE  /\ next[s] \in Seq(Pids) /\ next[s] # <<>>
         /\ Elements(next[s]) \subseteq Pids \ Sources
<1>1. next[s] \in Seq(Operators \union Sinks \union {Parent}) \ {<<>>}
  BY PipelineAssumption
<1>2. Operators \union Sinks \union {Parent} \subseteq Pids \ Sources
  BY PipelineAssumption DEF Pids, Steps
<1> QED
  BY <1>1, <1>2 DEF Elements

-----------------------------------------------------------------------------
\* The walk keeps its types.
LEMMA TypeStep == TypeOK /\ [Next]_vars => TypeOK'
<1> SUFFICES ASSUME TypeOK, [Next]_vars PROVE TypeOK'
  OBVIOUS
<1>1. next \in Graphs /\ \A s \in Steps : next[s] \in Seq(Pids) /\ Elements(next[s]) \subseteq Pids
  BY GraphFacts DEF TypeOK
<1>2. CASE IdentifyFlows
  <2>1. NextUpstream(upstream) \in SUBSET Steps
    BY <1>1 DEF TypeOK, NextUpstream, Pids
  <2>2. WithInputs(upstream) \in [Pids -> SUBSET Steps]
    BY DEF TypeOK, WithInputs
  <2> QED
    BY <1>2, <2>1, <2>2 DEF IdentifyFlows, TypeOK
<1>3. CASE FlowsIdentified
  BY <1>3 DEF FlowsIdentified, TypeOK
<1>4. ASSUME NEW list \in Seq(Pids), NEW done, NEW frames \in Seq(Seq(Pids))
      PROVE  Called(list, done, frames) \in Seq(Seq(Pids))
  BY Pushed DEF Called
<1>5. ASSUME NEW s \in Sources, EmitSource(s) PROVE TypeOK'
  <2>1. s \in Steps /\ s \in Pids
    BY DEF Steps, Pids
  <2>2. Append(ran, s) \in Seq(Pids)
    BY <2>1, ElementsOfAppend DEF TypeOK
  <2>3. stack' \in Seq(Seq(Pids))
    BY <1>1, <1>4, <1>5, <2>1 DEF EmitSource, TypeOK
  <2> QED
    BY <1>5, <2>2, <2>3 DEF EmitSource, TypeOK
<1>6. CASE Visit
  <2> DEFINE p == Head(Head(stack))
             rest == <<Tail(Head(stack))>> \o Tail(stack)
  <2>1. Head(stack) \in Seq(Pids) /\ Tail(stack) \in Seq(Seq(Pids))
    BY <1>6, ElementsOfTail DEF Visit, TypeOK
  <2>2. p \in Pids /\ Tail(Head(stack)) \in Seq(Pids)
    BY <1>6, <2>1, ElementsOfTail DEF Visit
  <2>3. p \in Steps
    BY <1>6, <2>2 DEF Visit, Pids
  <2>4. rest \in Seq(Seq(Pids))
    BY <2>1, <2>2, Pushed
  <2>5. stack' = Called(next[p], ran', rest) /\ ran' = Append(ran, p)
    BY <1>6 DEF Visit
  <2> HIDE DEF rest, p
  <2>6. stack' \in Seq(Seq(Pids)) /\ ran' \in Seq(Pids)
    BY <1>1, <1>4, <2>2, <2>3, <2>4, <2>5, ElementsOfAppend DEF TypeOK
  <2> QED
    BY <1>6, <2>6 DEF Visit, TypeOK
<1>7. CASE VisitParent
  BY <1>7 DEF VisitParent, TypeOK
<1>8. CASE Return
  <2>1. Tail(stack) \in Seq(Seq(Pids))
    BY <1>8, ElementsOfTail DEF Return, TypeOK
  <2> QED
    BY <1>8, <2>1 DEF Return, TypeOK
<1>9. CASE StartContext \/ Throw \/ UNCHANGED vars
  BY <1>9 DEF StartContext, Throw, vars, TypeOK
<1> QED
  BY <1>2, <1>3, <1>5, <1>6, <1>7, <1>8, <1>9 DEF Next

\* The walk keeps its types, for every set of graphs.
THEOREM TypeCorrect == Spec => []TypeOK
<1>1. Init => TypeOK
  BY DEF Init, TypeOK, Steps
<1> QED
  BY <1>1, TypeStep, PTL DEF Spec

-----------------------------------------------------------------------------
\* When the flows are identified, every step that can be reached is an input of
\* all its next steps.
Reached(s) == s \in Sources \/ prev[s] # {}
FlowsKept ==
  /\ \A s \in Steps : Reached(s) =>
       s \in upstream \/ \A p \in Elements(next[s]) : s \in prev[p]
  /\ phase = "flows" => stack = <<>> /\ ran = <<>>
  /\ phase # "flows" => upstream = {}

LEMMA FlowsStep == TypeOK /\ FlowsKept /\ [Next]_vars => FlowsKept'
<1> SUFFICES ASSUME TypeOK, FlowsKept, [Next]_vars PROVE FlowsKept'
  OBVIOUS
<1>1. CASE IdentifyFlows
  <2>1. /\ phase = "flows" /\ phase' = phase /\ next' = next /\ stack' = stack /\ ran' = ran
        /\ \A p \in Pids : prev'[p] = prev[p] \union {s \in upstream : p \in Elements(next[s])}
        /\ upstream' = (UNION {Elements(next[s]) : s \in upstream}) \ {Parent}
    BY <1>1 DEF IdentifyFlows, WithInputs, NextUpstream
  <2>2. ASSUME NEW s \in Steps, Reached(s)', s \notin upstream',
               NEW p \in Elements(next[s])
        PROVE  s \in prev'[p]
    <3>1. p \in Pids /\ s \in Pids /\ s # Parent
      BY GraphFacts, PipelineAssumption DEF TypeOK, Pids
    <3>2. Reached(s)
      BY <2>1, <2>2, <3>1 DEF Reached
    <3>3. CASE s \in upstream
      BY <2>1, <3>1, <3>3
    <3>4. CASE s \notin upstream
      BY <2>1, <3>1, <3>2, <3>4 DEF FlowsKept
    <3> QED
      BY <3>3, <3>4
  <2> QED
    BY <2>1, <2>2 DEF FlowsKept
<1>2. CASE FlowsIdentified
  BY <1>2 DEF FlowsIdentified, FlowsKept, Reached
<1>3. ASSUME NEW s \in Sources, EmitSource(s) PROVE FlowsKept'
  BY <1>3 DEF EmitSource, FlowsKept, Reached
<1>4. CASE Visit
  BY <1>4 DEF Visit, FlowsKept, Reached
<1>5. CASE VisitParent \/ Return \/ StartContext \/ Throw
  BY <1>5 DEF VisitParent, Return, StartContext, Throw, FlowsKept, Reached
<1>6. CASE UNCHANGED vars
  BY <1>6 DEF vars, FlowsKept, Reached
<1> QED
  BY <1>1, <1>2, <1>3, <1>4, <1>5, <1>6 DEF Next

-----------------------------------------------------------------------------
(***************************************************************************)
(* The walk.                                                               *)
(***************************************************************************)

\* A list may be visited: the inputs of its steps are set up.
MayVisit(list, done) ==
  \A p \in Elements(list) : p \notin Sources /\ prev[p] # {} /\ prev[p] \subseteq Transformed(done)
ReadyFrames == \A i \in DOMAIN stack : MayVisit(stack[i], ran)
RanReady == \A p \in Elements(ran) : p \in Sources \/ prev[p] \subseteq Transformed(ran)

Walk == ReadyFrames /\ RanReady /\ InputsFirst
WalkInv == TypeOK /\ FlowsKept /\ Walk

\* A step q is set up, and a call for the steps after it is made.
SetsUp(q, frames) ==
  /\ phase = "emit" /\ Reached(q)
  /\ q \in Sources \/ prev[q] \subseteq Transformed(ran)
  /\ ran' = Append(ran, q)
  /\ stack' = Called(next[q], ran', frames)
  /\ next' = next /\ prev' = prev

\* The next steps of a step that is set up have it as an input.
LEMMA InputOfNext ==
  ASSUME WalkInv, phase = "emit", NEW q \in Steps, Reached(q), NEW p \in Elements(next[q])
  PROVE  q \in prev[p] /\ p \notin Sources
  BY GraphFacts DEF WalkInv, FlowsKept, TypeOK

LEMMA SetUpStep ==
  ASSUME WalkInv, NEW q \in Steps, NEW frames \in Seq(Seq(Pids)), SetsUp(q, frames),
         \A i \in DOMAIN frames : MayVisit(frames[i], ran)
  PROVE  Walk'
<1>0. ran \in Seq(Pids) /\ q \in Pids /\ next[q] \in Seq(Pids) /\ upstream = {}
  BY GraphFacts DEF WalkInv, TypeOK, Pids, FlowsKept, SetsUp
<1>1. /\ Len(ran) \in Nat /\ DOMAIN ran = 1 .. Len(ran) /\ DOMAIN ran' = 1 .. Len(ran) + 1
      /\ ran'[Len(ran) + 1] = q /\ \A i \in DOMAIN ran : ran'[i] = ran[i]
      /\ Elements(ran') = Elements(ran) \union {q}
  <2>1. ran' = Append(ran, q)
    BY DEF SetsUp
  <2> QED
    BY <1>0, <2>1, ElementsOfAppend
<1>2. Transformed(ran) \subseteq Transformed(ran') /\ Transformed(ran) \subseteq Elements(ran)
  BY <1>1 DEF Transformed
<1>3. RanReady'
  BY <1>1, <1>2 DEF RanReady, WalkInv, Walk, SetsUp
<1>4. ASSUME NEW list, MayVisit(list, ran) PROVE MayVisit(list, ran)'
  BY <1>2, <1>4 DEF MayVisit, SetsUp
<1>5. ReadyFrames'
  <2>1. stack' = Called(next[q], ran', frames) /\ prev' = prev
    BY DEF SetsUp
  <2>2. CASE ~Ready(next[q], ran')
    BY <1>4, <2>1, <2>2 DEF Called, ReadyFrames, MayVisit
  <2>3. CASE Ready(next[q], ran')
    <3>1. stack' = <<next[q]>> \o frames
      BY <2>1, <2>3 DEF Called
    <3>2. \A p \in Elements(next[q]) :
            p \notin Sources /\ prev[p] # {} /\ prev[p] \subseteq Transformed(ran')
      BY <2>3, InputOfNext DEF Ready, SetsUp
    <3>3. /\ DOMAIN stack' = 1 .. Len(frames) + 1 /\ stack'[1] = next[q]
          /\ \A i \in 2 .. Len(frames) + 1 : stack'[i] = frames[i - 1]
      BY <1>0, <3>1, Pushed
    <3>4. ASSUME NEW i \in DOMAIN stack'
          PROVE  \A p \in Elements(stack'[i]) :
                   p \notin Sources /\ prev[p] # {} /\ prev[p] \subseteq Transformed(ran')
      <4>1. CASE i = 1
        BY <3>2, <3>3, <4>1
      <4>2. CASE i # 1
        <5>1. Len(frames) \in Nat /\ DOMAIN frames = 1 .. Len(frames)
          OBVIOUS
        <5>2. i - 1 \in DOMAIN frames /\ stack'[i] = frames[i - 1]
          BY <3>3, <4>2, <5>1
        <5>3. MayVisit(frames[i - 1], ran)
          BY <5>2
        <5> QED
          BY <1>2, <5>2, <5>3 DEF MayVisit
      <4> QED
        BY <4>1, <4>2
    <3> QED
      BY <2>1, <3>4 DEF ReadyFrames, MayVisit
  <2> QED
    BY <2>2, <2>3
<1>6. InputsFirst'
  <2> SUFFICES ASSUME NEW i \in DOMAIN ran', NEW s \in Steps,
                      ran'[i] \in Elements(next[s]), Reached(s)
               PROVE  \E k \in DOMAIN ran' : k < i /\ ran'[k] = s
    BY DEF InputsFirst, Reached, SetsUp
  <2>1. CASE i \in DOMAIN ran
    <3>1. PICK k \in DOMAIN ran : k < i /\ ran[k] = s
      BY <1>1, <2>1 DEF WalkInv, Walk, InputsFirst, Reached
    <3> QED
      BY <1>1, <3>1
  <2>2. CASE i = Len(ran) + 1
    <3>1. s \in prev[q] /\ q \notin Sources
      BY <1>1, <2>2, InputOfNext DEF SetsUp
    <3>2. s \in Elements(ran)
      BY <1>2, <3>1 DEF SetsUp
    <3>3. PICK k \in DOMAIN ran : ran[k] = s
      BY <3>2 DEF Elements
    <3> QED
      BY <1>1, <2>2, <3>3
  <2> QED
    BY <1>1, <2>1, <2>2
<1> QED
  BY <1>3, <1>5, <1>6 DEF Walk

\* What Visit finds on the stack.
LEMMA VisitFinds ==
  ASSUME WalkInv, Visit
  PROVE  LET p == Head(Head(stack))
             rest == <<Tail(Head(stack))>> \o Tail(stack)
         IN  /\ p \in Steps \ Sources /\ p \in Elements(stack[1])
             /\ Len(stack) \in Nat /\ Len(stack) > 0 /\ DOMAIN stack = 1 .. Len(stack)
             /\ rest \in Seq(Seq(Pids)) /\ DOMAIN rest = 1 .. Len(stack)
             /\ rest[1] = Tail(stack[1]) /\ \A i \in 2 .. Len(stack) : rest[i] = stack[i]
             /\ \A i \in DOMAIN rest : Elements(rest[i]) \subseteq Elements(stack[i])
             /\ \A i \in DOMAIN rest : MayVisit(rest[i], ran)
             /\ SetsUp(p, rest)
<1> DEFINE p == Head(Head(stack))
           rest == <<Tail(Head(stack))>> \o Tail(stack)
<1>0. stack \in Seq(Seq(Pids)) /\ stack # <<>> /\ Head(stack) # <<>>
  BY DEF Visit, WalkInv, TypeOK
<1>1. /\ Len(stack) \in Nat /\ Len(stack) > 0 /\ DOMAIN stack = 1 .. Len(stack)
      /\ Head(stack) = stack[1] /\ stack[1] \in Seq(Pids) /\ stack[1] # <<>>
      /\ Tail(stack) \in Seq(Seq(Pids)) /\ Len(Tail(stack)) = Len(stack) - 1
      /\ \A i \in 1 .. Len(stack) - 1 : Tail(stack)[i] = stack[i + 1]
  BY <1>0
<1>2. /\ p \in Pids /\ p \in Elements(stack[1]) /\ Tail(stack[1]) \in Seq(Pids)
      /\ Elements(Tail(stack[1])) \subseteq Elements(stack[1])
  BY <1>1, ElementsOfTail
<1>3. /\ rest \in Seq(Seq(Pids)) /\ DOMAIN rest = 1 .. Len(stack) - 1 + 1
      /\ rest[1] = Tail(stack[1])
      /\ \A i \in 2 .. Len(stack) - 1 + 1 : rest[i] = Tail(stack)[i - 1]
  BY <1>1, <1>2, Pushed
<1> HIDE DEF rest
<1>4. /\ DOMAIN rest = 1 .. Len(stack) /\ rest[1] = Tail(stack[1])
      /\ \A i \in 2 .. Len(stack) : rest[i] = stack[i]
  BY <1>1, <1>3
<1>5. \A i \in DOMAIN rest : Elements(rest[i]) \subseteq Elements(stack[i])
  <2> SUFFICES ASSUME NEW i \in DOMAIN rest PROVE Elements(rest[i]) \subseteq Elements(stack[i])
    OBVIOUS
  <2>1. CASE i = 1
    BY <1>2, <1>4, <2>1
  <2>2. CASE i # 1
    <3>1. i \in 2 .. Len(stack)
      BY <1>1, <1>4, <2>2
    <3> QED
      BY <1>4, <3>1
  <2> QED
    BY <2>1, <2>2
<1>6. \A i \in DOMAIN stack : MayVisit(stack[i], ran)
  BY DEF WalkInv, Walk, ReadyFrames
<1>7. \A i \in DOMAIN rest : MayVisit(rest[i], ran)
  BY <1>1, <1>4, <1>5, <1>6 DEF MayVisit
<1>8. p \notin Sources /\ prev[p] # {} /\ prev[p] \subseteq Transformed(ran) /\ p # Parent
  BY <1>1, <1>2, <1>6 DEF MayVisit, Visit
<1>9. SetsUp(p, rest)
  BY <1>8 DEF SetsUp, Visit, Reached, rest
<1> QED
  BY <1>1, <1>2, <1>3, <1>4, <1>5, <1>7, <1>8, <1>9 DEF Pids, rest

LEMMA EmitSetsUp ==
  ASSUME WalkInv, NEW s \in Sources, EmitSource(s)
  PROVE  s \in Steps /\ stack = <<>> /\ SetsUp(s, <<>>)
  BY DEF EmitSource, SetsUp, Reached, Steps

LEMMA WalkStep == WalkInv /\ [Next]_vars => WalkInv'
<1> SUFFICES ASSUME WalkInv, [Next]_vars PROVE Walk'
  BY TypeStep, FlowsStep DEF WalkInv
<1>1. CASE IdentifyFlows
  <2>1. stack' = <<>> /\ ran' = <<>>
    BY <1>1 DEF IdentifyFlows, WalkInv, FlowsKept
  <2> QED
    BY <2>1 DEF Walk, ReadyFrames, RanReady, InputsFirst, Elements
<1>2. ASSUME NEW s \in Sources, EmitSource(s) PROVE Walk'
  <2>1. s \in Steps /\ SetsUp(s, <<>>) /\ <<>> \in Seq(Seq(Pids)) /\ DOMAIN <<>> = {}
    BY <1>2, EmitSetsUp
  <2>2. \A i \in DOMAIN <<>> : MayVisit(<<>>[i], ran)
    BY <2>1
  <2> QED
    BY <2>1, <2>2, SetUpStep
<1>3. CASE Visit
  <2> DEFINE p == Head(Head(stack))
             rest == <<Tail(Head(stack))>> \o Tail(stack)
  <2>1. p \in Steps /\ rest \in Seq(Seq(Pids)) /\ SetsUp(p, rest)
        /\ \A i \in DOMAIN rest : MayVisit(rest[i], ran)
    BY <1>3, VisitFinds
  <2> HIDE DEF p, rest
  <2> QED
    BY <2>1, SetUpStep
<1>4. CASE Return
  <2>1. /\ stack \in Seq(Seq(Pids)) /\ stack # <<>> /\ stack' = Tail(stack)
        /\ ran' = ran /\ prev' = prev /\ next' = next
    BY <1>4 DEF Return, WalkInv, TypeOK
  <2>2. \A i \in DOMAIN stack' : i + 1 \in DOMAIN stack /\ stack'[i] = stack[i + 1]
    BY <2>1
  <2>3. ReadyFrames'
    BY <2>1, <2>2 DEF WalkInv, Walk, ReadyFrames, MayVisit
  <2> QED
    BY <2>1, <2>3 DEF WalkInv, Walk, RanReady, InputsFirst
<1>5. CASE FlowsIdentified \/ VisitParent \/ StartContext \/ Throw \/ UNCHANGED vars
  <2>1. stack' = stack /\ ran' = ran /\ prev' = prev /\ next' = next
    BY <1>5 DEF FlowsIdentified, VisitParent, StartContext, Throw, vars
  <2> QED
    BY <2>1 DEF WalkInv, Walk, ReadyFrames, MayVisit, RanReady, InputsFirst
<1> QED
  BY <1>1, <1>2, <1>3, <1>4, <1>5 DEF Next

LEMMA WalkInvariant == Spec => []WalkInv
<1>1. Init => WalkInv
  <2> SUFFICES ASSUME Init PROVE WalkInv
    OBVIOUS
  <2>1. TypeOK /\ FlowsKept
    BY DEF Init, TypeOK, FlowsKept, Reached, Steps, Pids
  <2>2. stack = <<>> /\ ran = <<>>
    BY DEF Init
  <2> QED
    BY <2>1, <2>2 DEF WalkInv, Walk, ReadyFrames, RanReady, InputsFirst, Elements
<1> QED
  BY <1>1, WalkStep, PTL DEF Spec

\* For every graph, a step is set up after all steps that lead to it from a source.
THEOREM InputsAreThere == Spec => []InputsFirst
<1>1. WalkInv => InputsFirst
  BY DEF WalkInv, Walk
<1> QED
  BY <1>1, WalkInvariant, PTL
-----------------------------------------------------------------------------
(***************************************************************************)
(* No step twice.  This needs that no list of next ids names a step twice. *)
(***************************************************************************)
Distinct ==
  \A g \in Graphs : \A s \in Steps : \A a, b \in DOMAIN g[s] : g[s][a] = g[s][b] => a = b

\* The lists on the stack have no step in common, and none twice.
Apart(frames) ==
  \A i, k \in DOMAIN frames : \A a \in DOMAIN frames[i], b \in DOMAIN frames[k] :
    frames[i][a] = frames[k][b] => i = k /\ a = b
New(frames, done) == \A i \in DOMAIN frames : \A p \in Elements(frames[i]) : p \notin done
Unvisited ==
  /\ Apart(stack) /\ New(stack, Elements(ran))
  /\ toEmit \intersect Elements(ran) = {}
OnceInv == WalkInv /\ RunsOnce /\ Unvisited

LEMMA SetUpNewStep ==
  ASSUME OnceInv, Distinct, NEW q \in Steps, NEW frames \in Seq(Seq(Pids)), SetsUp(q, frames),
         \A i \in DOMAIN frames : MayVisit(frames[i], ran),
         q \notin Elements(ran), New(frames, Elements(ran) \union {q}), Apart(frames),
         toEmit' \intersect (Elements(ran) \union {q}) = {}
  PROVE  RunsOnce' /\ Unvisited'
<1>0. ran \in Seq(Pids) /\ q \in Pids /\ next[q] \in Seq(Pids) /\ next \in Graphs
  BY GraphFacts DEF OnceInv, WalkInv, TypeOK, Pids
<1>1. /\ Len(ran) \in Nat /\ DOMAIN ran = 1 .. Len(ran) /\ DOMAIN ran' = 1 .. Len(ran) + 1
      /\ ran'[Len(ran) + 1] = q /\ \A i \in DOMAIN ran : ran'[i] = ran[i]
      /\ Elements(ran') = Elements(ran) \union {q}
  <2>1. ran' = Append(ran, q)
    BY DEF SetsUp
  <2> QED
    BY <1>0, <2>1, ElementsOfAppend
<1>2. RunsOnce'
  <2> SUFFICES ASSUME NEW i \in DOMAIN ran', NEW k \in DOMAIN ran', ran'[i] = ran'[k]
               PROVE  i = k
    BY DEF RunsOnce
  <2>1. \A x \in DOMAIN ran : ran[x] # q
    BY DEF Elements
  <2>2. i \in DOMAIN ran \/ i = Len(ran) + 1
    BY <1>1
  <2>3. k \in DOMAIN ran \/ k = Len(ran) + 1
    BY <1>1
  <2> QED
    BY <1>1, <2>1, <2>2, <2>3 DEF OnceInv, RunsOnce
\* The next steps of q have q as an input; what was set up or waits had its inputs.
<1>3. q \notin Transformed(ran)
  BY DEF Transformed
<1>4. ASSUME NEW p \in Elements(next[q])
      PROVE  /\ p \notin Elements(ran) \union {q}
             /\ \A i \in DOMAIN frames : p \notin Elements(frames[i])
  <2>1. q \in prev[p] /\ p \notin Sources
    BY InputOfNext DEF OnceInv, SetsUp
  <2> QED
    BY <1>3, <2>1 DEF OnceInv, WalkInv, Walk, RanReady, MayVisit, SetsUp
<1>5. CASE ~Ready(next[q], ran')
  <2>1. stack' = frames
    BY <1>5 DEF SetsUp, Called
  <2> QED
    BY <1>1, <1>2, <2>1 DEF Unvisited
<1>6. CASE Ready(next[q], ran')
  <2>1. stack' = <<next[q]>> \o frames
    BY <1>6 DEF SetsUp, Called
  <2>2. /\ DOMAIN stack' = 1 .. Len(frames) + 1 /\ stack'[1] = next[q]
        /\ \A i \in 2 .. Len(frames) + 1 : stack'[i] = frames[i - 1]
    BY <1>0, <2>1, Pushed
  <2>3. Len(frames) \in Nat /\ DOMAIN frames = 1 .. Len(frames)
    OBVIOUS
  <2>4. \A i \in DOMAIN stack' : i = 1 \/ (i - 1 \in DOMAIN frames /\ stack'[i] = frames[i - 1])
    BY <2>2, <2>3
  <2>5. New(stack', Elements(ran'))
    BY <1>1, <1>4, <2>2, <2>4 DEF New
  <2>6. Apart(stack')
    <3> SUFFICES ASSUME NEW i \in DOMAIN stack', NEW k \in DOMAIN stack',
                        NEW a \in DOMAIN stack'[i], NEW b \in DOMAIN stack'[k],
                        stack'[i][a] = stack'[k][b]
                 PROVE  i = k /\ a = b
      BY DEF Apart
    <3>1. stack'[i][a] \in Elements(stack'[i]) /\ stack'[k][b] \in Elements(stack'[k])
      BY DEF Elements
    <3>2. CASE i = 1 /\ k = 1
      BY <1>0, <2>2, <3>2 DEF Distinct
    <3>3. CASE i = 1 /\ k # 1
      BY <1>4, <2>2, <2>4, <3>1, <3>3
    <3>4. CASE i # 1 /\ k = 1
      BY <1>4, <2>2, <2>4, <3>1, <3>4
    <3>5. CASE i # 1 /\ k # 1
      <4>1. /\ i - 1 \in DOMAIN frames /\ stack'[i] = frames[i - 1]
            /\ k - 1 \in DOMAIN frames /\ stack'[k] = frames[k - 1]
        BY <2>4, <3>5
      <4>2. i - 1 = k - 1 /\ a = b
        BY <4>1 DEF Apart
      <4> QED
        BY <2>2, <2>3, <4>2
    <3> QED
      BY <3>2, <3>3, <3>4, <3>5
  <2> QED
    BY <1>1, <1>2, <2>5, <2>6 DEF Unvisited
<1> QED
  BY <1>5, <1>6

LEMMA OnceStep ==
  ASSUME Distinct, OnceInv, [Next]_vars
  PROVE  OnceInv'
<1> SUFFICES RunsOnce' /\ Unvisited'
  BY WalkStep DEF OnceInv
<1>0. WalkInv /\ toEmit \subseteq Sources
  BY DEF OnceInv, WalkInv, TypeOK
<1>1. CASE IdentifyFlows \/ FlowsIdentified \/ VisitParent \/ StartContext \/ Throw \/ UNCHANGED vars
  <2>1. stack' = stack /\ ran' = ran /\ toEmit' = toEmit
    BY <1>1 DEF IdentifyFlows, FlowsIdentified, VisitParent, StartContext, Throw, vars
  <2> QED
    BY <2>1 DEF OnceInv, RunsOnce, Unvisited
<1>2. ASSUME NEW s \in Sources, EmitSource(s) PROVE RunsOnce' /\ Unvisited'
  <2>1. /\ s \in Steps /\ SetsUp(s, <<>>) /\ <<>> \in Seq(Seq(Pids)) /\ DOMAIN <<>> = {}
        /\ s \in toEmit /\ toEmit' = toEmit \ {s}
    BY <1>0, <1>2, EmitSetsUp DEF EmitSource
  <2>2. /\ \A i \in DOMAIN <<>> : MayVisit(<<>>[i], ran)
        /\ New(<<>>, Elements(ran) \union {s}) /\ Apart(<<>>)
    BY <2>1 DEF New, Apart
  <2>3. s \notin Elements(ran) /\ toEmit' \intersect (Elements(ran) \union {s}) = {}
    BY <2>1 DEF OnceInv, Unvisited
  <2> QED
    BY <2>1, <2>2, <2>3, SetUpNewStep
<1>3. CASE Visit
  <2> DEFINE p == Head(Head(stack))
             rest == <<Tail(Head(stack))>> \o Tail(stack)
  <2>1. /\ p \in Steps \ Sources /\ p \in Elements(stack[1])
        /\ Len(stack) \in Nat /\ Len(stack) > 0 /\ DOMAIN stack = 1 .. Len(stack)
        /\ rest \in Seq(Seq(Pids)) /\ DOMAIN rest = 1 .. Len(stack)
        /\ rest[1] = Tail(stack[1]) /\ \A i \in 2 .. Len(stack) : rest[i] = stack[i]
        /\ \A i \in DOMAIN rest : Elements(rest[i]) \subseteq Elements(stack[i])
        /\ \A i \in DOMAIN rest : MayVisit(rest[i], ran)
        /\ SetsUp(p, rest)
    BY <1>0, <1>3, VisitFinds
  <2>2. /\ stack[1] \in Seq(Pids) /\ stack[1] # <<>> /\ p = stack[1][1] /\ toEmit' = toEmit
    <3>1. stack \in Seq(Seq(Pids)) /\ stack # <<>> /\ Head(stack) # <<>> /\ toEmit' = toEmit
      BY <1>0, <1>3 DEF Visit, WalkInv, TypeOK
    <3>2. Head(stack) = stack[1] /\ stack[1] \in Seq(Pids)
      BY <3>1
    <3>3. Head(stack[1]) = stack[1][1]
      BY <3>1, <3>2
    <3> QED
      BY <3>1, <3>2, <3>3
  <2> HIDE DEF p, rest
  <2>3. /\ Len(stack[1]) \in Nat /\ DOMAIN stack[1] = 1 .. Len(stack[1])
        /\ DOMAIN Tail(stack[1]) = 1 .. Len(stack[1]) - 1
        /\ \A a \in DOMAIN Tail(stack[1]) : Tail(stack[1])[a] = stack[1][a + 1]
    BY <2>2
  \* Where the lists of the rest are on the stack.
  <2>4. ASSUME NEW i \in DOMAIN rest, NEW a \in DOMAIN rest[i]
        PROVE  LET at == IF i = 1 THEN a + 1 ELSE a
               IN  /\ i \in DOMAIN stack /\ at \in DOMAIN stack[i] /\ rest[i][a] = stack[i][at]
                   /\ i = 1 => a \in Nat /\ at # 1
    <3>1. CASE i = 1
      <4>1. a \in DOMAIN Tail(stack[1])
        BY <2>1, <3>1
      <4>2. a \in Nat /\ a + 1 \in DOMAIN stack[1] /\ a + 1 # 1
        BY <2>3, <4>1
      <4> QED
        BY <2>1, <2>3, <3>1, <4>1, <4>2
    <3>2. CASE i # 1
      <4>1. i \in 2 .. Len(stack)
        BY <2>1, <3>2
      <4> QED
        BY <2>1, <3>2, <4>1
    <3> QED
      BY <3>1, <3>2
  <2>5. Apart(stack) /\ New(stack, Elements(ran)) /\ toEmit \intersect Elements(ran) = {}
    BY DEF OnceInv, Unvisited
  <2>6. 1 \in DOMAIN stack /\ 1 \in DOMAIN stack[1]
    BY <2>1, <2>2, <2>3
  <2>7. ASSUME NEW i \in DOMAIN rest, NEW a \in DOMAIN rest[i] PROVE rest[i][a] # p
    <3> DEFINE at == IF i = 1 THEN a + 1 ELSE a
    <3>1. /\ i \in DOMAIN stack /\ at \in DOMAIN stack[i] /\ rest[i][a] = stack[i][at]
          /\ i = 1 => at # 1
      BY <2>4
    <3> HIDE DEF at
    <3> QED
      BY <2>2, <2>5, <2>6, <3>1 DEF Apart
  <2>8. New(rest, Elements(ran) \union {p})
    <3>1. \A i \in DOMAIN rest : \A x \in Elements(rest[i]) : x \notin Elements(ran)
      BY <2>1, <2>5 DEF New
    <3>2. \A i \in DOMAIN rest : p \notin Elements(rest[i])
      BY <2>7 DEF Elements
    <3> QED
      BY <3>1, <3>2 DEF New
  <2>9. Apart(rest)
    <3> SUFFICES ASSUME NEW i \in DOMAIN rest, NEW k \in DOMAIN rest,
                        NEW a \in DOMAIN rest[i], NEW b \in DOMAIN rest[k],
                        rest[i][a] = rest[k][b]
                 PROVE  i = k /\ a = b
      BY DEF Apart
    <3> DEFINE atA == IF i = 1 THEN a + 1 ELSE a
               atB == IF k = 1 THEN b + 1 ELSE b
    <3>1. /\ i \in DOMAIN stack /\ atA \in DOMAIN stack[i] /\ rest[i][a] = stack[i][atA]
          /\ i = 1 => a \in Nat
      BY <2>4
    <3>2. /\ k \in DOMAIN stack /\ atB \in DOMAIN stack[k] /\ rest[k][b] = stack[k][atB]
          /\ k = 1 => b \in Nat
      BY <2>4
    <3> HIDE DEF atA, atB
    <3> HIDE DEF rest
    <3>3. stack[i][atA] = stack[k][atB]
      BY <3>1, <3>2
    <3>4. Apart(stack)
      BY <2>5
    <3>5. i = k /\ atA = atB
      BY <3>1, <3>2, <3>3, <3>4 DEF Apart
    <3> QED
      BY <3>1, <3>2, <3>5 DEF atA, atB
  <2>10. p \notin Elements(ran)
    BY <2>1, <2>5, <2>6 DEF New
  <2>11. toEmit' \intersect (Elements(ran) \union {p}) = {}
    BY <1>0, <2>1, <2>2, <2>5
  <2> QED
    BY <2>1, <2>8, <2>9, <2>10, <2>11, SetUpNewStep
<1>4. CASE Return
  <2>1. /\ stack \in Seq(Seq(Pids)) /\ stack # <<>> /\ stack' = Tail(stack)
        /\ ran' = ran /\ toEmit' = toEmit
    BY <1>0, <1>4 DEF Return, WalkInv, TypeOK
  <2>2. \A i \in DOMAIN stack' :
          i \in Nat /\ i + 1 \in DOMAIN stack /\ stack'[i] = stack[i + 1]
    BY <2>1
  <2>3. New(stack', Elements(ran'))
    BY <2>1, <2>2 DEF OnceInv, Unvisited, New
  <2>4. Apart(stack')
    <3> SUFFICES ASSUME NEW i \in DOMAIN stack', NEW k \in DOMAIN stack',
                        NEW a \in DOMAIN stack'[i], NEW b \in DOMAIN stack'[k],
                        stack'[i][a] = stack'[k][b]
                 PROVE  i = k /\ a = b
      BY DEF Apart
    <3>1. i + 1 = k + 1 /\ a = b
      BY <2>2 DEF OnceInv, Unvisited, Apart
    <3> QED
      BY <2>2, <3>1
  <2> QED
    BY <2>1, <2>3, <2>4 DEF OnceInv, RunsOnce, Unvisited
<1> QED
  BY <1>1, <1>2, <1>3, <1>4 DEF Next

\* For every graph whose lists name no step twice, no step is set up twice, however
\* many paths lead to it.
THEOREM SetUpOnce == ASSUME Distinct PROVE Spec => []RunsOnce
<1>1. Init => OnceInv
  <2> SUFFICES ASSUME Init PROVE OnceInv
    OBVIOUS
  <2>1. WalkInv
    <3>1. TypeOK /\ FlowsKept
      BY DEF Init, TypeOK, FlowsKept, Reached, Steps, Pids
    <3>2. stack = <<>> /\ ran = <<>>
      BY DEF Init
    <3> QED
      BY <3>1, <3>2 DEF WalkInv, Walk, ReadyFrames, RanReady, InputsFirst, Elements
  <2> QED
    BY <2>1 DEF Init, OnceInv, RunsOnce, Unvisited, Apart, New, Elements
<1>2. OnceInv /\ [Next]_vars => OnceInv'
  BY OnceStep
<1>3. OnceInv => RunsOnce
  BY DEF OnceInv
<1> QED
  BY <1>1, <1>2, <1>3, PTL DEF Spec

-----------------------------------------------------------------------------
(***************************************************************************)
(* Nothing is left out.  A pipeline that starts without a step that can be *)
(* reached lacks, when the steps listed together have the same inputs, one *)
(* of the inputs of that step too (Pending), and an input of that input,   *)
(* and so on.  There are finitely many steps, so these inputs run in a     *)
(* circle; and the driver never gets done with the flows of a graph with a *)
(* circle that can be reached (Circling).                                  *)
(***************************************************************************)

\* Every step of the set has a next step in it.
GoesOn(S) == \A s \in S : \E p \in S : p \in Elements(next[s])
Circling ==
  /\ \A s \in upstream : Reached(s)
  /\ \A p \in Pids : \A s \in prev[p] : Reached(s) /\ p \in Elements(next[s])
  /\ \A S \in SUBSET Steps :
       GoesOn(S) /\ (\E s \in S : Reached(s)) => S \intersect upstream # {}

\* A step whose inputs are all there is set up or waits in one of the calls.
Waits(p) == \E i \in DOMAIN stack : p \in Elements(stack[i])
Pending ==
  Together => \A p \in Steps :
    prev[p] # {} /\ prev[p] \subseteq Transformed(ran) => p \in Elements(ran) \/ Waits(p)
Ends ==
  /\ \A s \in Sources : s \in toEmit \/ s \in Elements(ran)
  /\ phase = "started" => stack = <<>> /\ toEmit = {}

CoverInv == WalkInv /\ Circling /\ Pending /\ Ends

LEMMA CirclingStep ==
  ASSUME WalkInv, Circling, [Next]_vars
  PROVE  Circling'
<1>1. CASE IdentifyFlows
  <2>1. /\ next' = next /\ upstream \in SUBSET Steps /\ next \in Graphs
        /\ \A p \in Pids : prev'[p] = prev[p] \union {s \in upstream : p \in Elements(next[s])}
        /\ upstream' = (UNION {Elements(next[s]) : s \in upstream}) \ {Parent}
    BY <1>1 DEF IdentifyFlows, WithInputs, NextUpstream, WalkInv, TypeOK
  <2>2. \A s \in Steps : s \in Pids /\ s # Parent /\ Elements(next[s]) \subseteq Pids
    BY <2>1, GraphFacts, PipelineAssumption DEF Pids
  <2>3. ASSUME NEW s \in Pids, Reached(s) PROVE Reached(s)'
    BY <2>1, <2>3 DEF Reached
  <2>4. ASSUME NEW p \in upstream' PROVE Reached(p)'
    <3>1. PICK s \in upstream : p \in Elements(next[s])
      BY <2>1
    <3> QED
      BY <2>1, <2>2, <3>1 DEF Reached
  <2>5. ASSUME NEW p \in Pids, NEW s \in prev'[p]
        PROVE  Reached(s)' /\ p \in Elements(next'[s])
    <3>1. CASE s \in prev[p]
      BY <2>1, <2>2, <2>3, <3>1 DEF Circling, WalkInv, TypeOK
    <3>2. CASE s \in upstream /\ p \in Elements(next[s])
      BY <2>1, <2>2, <2>3, <3>2 DEF Circling
    <3> QED
      BY <2>1, <3>1, <3>2
  <2>6. ASSUME NEW S \in SUBSET Steps, GoesOn(S), NEW x \in S, Reached(x)'
        PROVE  S \intersect upstream' # {}
    <3>1. CASE Reached(x)
      <4>1. PICK s \in S : s \in upstream
        BY <2>6, <3>1 DEF Circling
      <4>2. PICK p \in S : p \in Elements(next[s])
        BY <2>6 DEF GoesOn
      <4>3. p \in upstream'
        BY <2>1, <2>2, <4>1, <4>2
      <4> QED
        BY <4>3
    <3>2. CASE ~Reached(x)
      <4>1. prev'[x] # {} /\ prev[x] = {}
        BY <2>6, <3>2 DEF Reached
      <4>2. PICK s \in upstream : x \in Elements(next[s])
        BY <2>1, <2>2, <4>1
      <4>3. x \in upstream'
        BY <2>1, <2>2, <4>2
      <4> QED
        BY <4>3
    <3> QED
      BY <3>1, <3>2
  <2>7. ASSUME NEW S \in SUBSET Steps, GoesOn(S)' PROVE GoesOn(S)
    BY <2>1, <2>7 DEF GoesOn
  <2> QED
    BY <2>4, <2>5, <2>6, <2>7 DEF Circling
<1>2. CASE next' = next /\ prev' = prev /\ upstream' = upstream
  BY <1>2 DEF Circling, Reached, GoesOn
<1>3. ASSUME NEW s \in Sources, EmitSource(s) PROVE Circling'
  BY <1>2, <1>3 DEF EmitSource
<1> QED
  BY <1>1, <1>2, <1>3
  DEF Next, FlowsIdentified, Visit, VisitParent, Return, StartContext, Throw, vars

LEMMA SetUpPending ==
  ASSUME CoverInv, NEW q \in Steps, NEW frames \in Seq(Seq(Pids)), SetsUp(q, frames),
         \A p \in Steps : Waits(p) => p = q \/ \E i \in DOMAIN frames : p \in Elements(frames[i])
  PROVE  Pending' /\ Elements(ran') = Elements(ran) \union {q}
<1>0. /\ ran \in Seq(Pids) /\ q \in Pids /\ next[q] \in Seq(Pids)
      /\ ran' = Append(ran, q) /\ stack' = Called(next[q], ran', frames)
      /\ prev' = prev /\ next' = next
  BY GraphFacts DEF CoverInv, WalkInv, TypeOK, Pids, SetsUp
<1>1. Elements(ran') = Elements(ran) \union {q}
  BY <1>0, ElementsOfAppend
\* A call that goes on is one more list on the stack.
<1>2. /\ DOMAIN (<<next[q]>> \o frames) = 1 .. Len(frames) + 1 /\ (<<next[q]>> \o frames)[1] = next[q]
      /\ \A i \in 2 .. Len(frames) + 1 : (<<next[q]>> \o frames)[i] = frames[i - 1]
  BY <1>0, Pushed
<1>3. Len(frames) \in Nat /\ DOMAIN frames = 1 .. Len(frames)
  OBVIOUS
<1>4. ASSUME NEW p, NEW i \in DOMAIN frames, p \in Elements(frames[i])
      PROVE  \E k \in DOMAIN stack' : p \in Elements(stack'[k])
  <2>1. CASE stack' = frames
    BY <1>4, <2>1
  <2>2. CASE stack' = <<next[q]>> \o frames
    <3>1. i + 1 \in 2 .. Len(frames) + 1 /\ i + 1 - 1 = i /\ i + 1 \in 1 .. Len(frames) + 1
      BY <1>3
    <3>2. i + 1 \in DOMAIN stack' /\ stack'[i + 1] = frames[i]
      BY <1>2, <2>2, <3>1
    <3> QED
      BY <1>4, <3>2
  <2> QED
    BY <1>0, <2>1, <2>2 DEF Called
<1>5. ASSUME Together, NEW p \in Steps, prev[p] # {}, prev[p] \subseteq Transformed(ran'),
             p \notin Elements(ran')
      PROVE  \E k \in DOMAIN stack' : p \in Elements(stack'[k])
  <2>1. CASE prev[p] \subseteq Transformed(ran)
    BY <1>1, <1>4, <1>5, <2>1 DEF CoverInv, Pending
  <2>2. CASE ~(prev[p] \subseteq Transformed(ran))
    <3>1. q \in prev[p] /\ p \in Pids
      BY <1>1, <1>5, <2>2 DEF Transformed, Pids
    <3>2. p \in Elements(next[q])
      BY <3>1 DEF CoverInv, Circling
    <3>3. Ready(next[q], ran')
      BY <1>5, <3>2 DEF Ready, Together
    <3>4. stack' = <<next[q]>> \o frames
      BY <1>0, <3>3 DEF Called
    <3>5. 1 \in DOMAIN stack' /\ stack'[1] = next[q]
      BY <1>2, <1>3, <3>4
    <3> QED
      BY <3>2, <3>5
  <2> QED
    BY <2>1, <2>2
<1>6. Together' => Together
  BY <1>0 DEF Together
<1>7. Transformed(ran)' = Transformed(ran') /\ Elements(ran)' = Elements(ran')
  BY DEF Transformed, Elements
<1> QED
  BY <1>0, <1>1, <1>5, <1>6, <1>7 DEF Pending, Waits

LEMMA CoverStep ==
  ASSUME CoverInv, [Next]_vars
  PROVE  CoverInv'
<1> SUFFICES Pending' /\ Ends'
  BY WalkStep, CirclingStep DEF CoverInv
<1>0. WalkInv /\ Circling /\ Pending /\ Ends
  BY DEF CoverInv
<1>1. CASE IdentifyFlows
  <2>1. ran' = <<>> /\ phase' = "flows" /\ ran = <<>> /\ toEmit' = toEmit
    BY <1>0, <1>1 DEF IdentifyFlows, WalkInv, FlowsKept
  <2>2. Transformed(ran') = {}
    BY <2>1 DEF Transformed, Elements
  <2> QED
    BY <1>0, <2>1, <2>2 DEF Pending, Ends
<1>2. ASSUME NEW s \in Sources, EmitSource(s) PROVE Pending' /\ Ends'
  <2>1. /\ s \in Steps /\ stack = <<>> /\ SetsUp(s, <<>>) /\ <<>> \in Seq(Seq(Pids))
        /\ toEmit' = toEmit \ {s} /\ phase' = "emit"
    BY <1>0, <1>2, EmitSetsUp DEF EmitSource
  <2>2. \A p \in Steps : ~Waits(p)
    BY <2>1 DEF Waits
  <2>3. Pending' /\ Elements(ran') = Elements(ran) \union {s}
    BY <2>1, <2>2, SetUpPending
  <2> QED
    BY <1>0, <2>1, <2>3 DEF Ends
<1>3. CASE Visit
  <2> DEFINE p == Head(Head(stack))
             rest == <<Tail(Head(stack))>> \o Tail(stack)
  <2>1. /\ p \in Steps
        /\ Len(stack) \in Nat /\ Len(stack) > 0 /\ DOMAIN stack = 1 .. Len(stack)
        /\ rest \in Seq(Seq(Pids)) /\ DOMAIN rest = 1 .. Len(stack)
        /\ rest[1] = Tail(stack[1]) /\ \A i \in 2 .. Len(stack) : rest[i] = stack[i]
        /\ SetsUp(p, rest)
    BY <1>0, <1>3, VisitFinds
  <2>2. /\ stack[1] \in Seq(Pids) /\ stack[1] # <<>> /\ p = stack[1][1]
        /\ toEmit' = toEmit /\ phase' = "emit"
    <3>1. stack \in Seq(Seq(Pids)) /\ stack # <<>> /\ Head(stack) # <<>>
          /\ toEmit' = toEmit /\ phase' = "emit"
      BY <1>0, <1>3 DEF Visit, WalkInv, TypeOK
    <3>2. Head(stack) = stack[1] /\ stack[1] \in Seq(Pids)
      BY <3>1
    <3> QED
      BY <3>1, <3>2
  <2> HIDE DEF p, rest
  <2>3. ASSUME NEW x \in Steps, Waits(x)
        PROVE  x = p \/ \E i \in DOMAIN rest : x \in Elements(rest[i])
    <3>1. PICK i \in DOMAIN stack : x \in Elements(stack[i])
      BY <2>3 DEF Waits
    <3>2. CASE i # 1
      BY <2>1, <3>1, <3>2
    <3>3. CASE i = 1
      <4>1. PICK a \in DOMAIN stack[1] : x = stack[1][a]
        BY <3>1, <3>3 DEF Elements
      <4>2. CASE a = 1
        BY <2>2, <4>1, <4>2
      <4>3. CASE a # 1
        <5>1. /\ a - 1 \in DOMAIN Tail(stack[1]) /\ Tail(stack[1])[a - 1] = stack[1][a]
          BY <2>2, <4>1, <4>3
        <5>2. x \in Elements(rest[1])
          BY <2>1, <4>1, <5>1 DEF Elements
        <5>3. 1 \in DOMAIN rest
          BY <2>1
        <5> QED
          BY <5>2, <5>3
      <4> QED
        BY <4>2, <4>3
    <3> QED
      BY <3>2, <3>3
  <2>4. Pending' /\ Elements(ran') = Elements(ran) \union {p}
    BY <2>1, <2>3, SetUpPending
  <2> QED
    BY <1>0, <2>2, <2>4 DEF Ends
<1>4. CASE Return
  <2>1. /\ stack \in Seq(Seq(Pids)) /\ stack # <<>> /\ Head(stack) = <<>> /\ stack' = Tail(stack)
        /\ ran' = ran /\ toEmit' = toEmit /\ prev' = prev /\ next' = next /\ phase' = "emit"
    BY <1>0, <1>4 DEF Return, WalkInv, TypeOK
  <2>2. ASSUME NEW p \in Steps, Waits(p) PROVE Waits(p)'
    <3>1. PICK i \in DOMAIN stack : p \in Elements(stack[i])
      BY <2>2 DEF Waits
    <3>2. Head(stack) = stack[1] /\ i \in 1 .. Len(stack) /\ Len(stack) \in Nat
      BY <2>1
    <3>3. i # 1
      BY <2>1, <3>1, <3>2 DEF Elements
    <3>4. i - 1 \in DOMAIN Tail(stack) /\ Tail(stack)[i - 1] = stack[i]
      BY <2>1, <3>2, <3>3
    <3> QED
      BY <2>1, <3>1, <3>4 DEF Waits
  <2>3. Together' = Together /\ Transformed(ran)' = Transformed(ran)
        /\ Elements(ran)' = Elements(ran)
    BY <2>1 DEF Together, Transformed, Elements
  <2>4. Pending'
    BY <1>0, <2>1, <2>2, <2>3 DEF Pending
  <2> QED
    BY <1>0, <2>1, <2>4 DEF Ends
<1>5. CASE FlowsIdentified \/ VisitParent \/ StartContext \/ Throw \/ UNCHANGED vars
  <2>1. /\ stack' = stack /\ ran' = ran /\ prev' = prev /\ next' = next /\ toEmit' = toEmit
        /\ phase' = "started" => stack = <<>> /\ toEmit = {}
    BY <1>0, <1>5 DEF FlowsIdentified, VisitParent, StartContext, Throw, vars, Ends
  <2> QED
    BY <1>0, <2>1 DEF Pending, Together, Waits, Ends
<1> QED
  BY <1>1, <1>2, <1>3, <1>4, <1>5 DEF Next

\* Finitely many steps that all have a predecessor among them have a circle.
LEMMA SomeCircle ==
  ASSUME NEW S, IsFiniteSet(S), S # {}, \A x \in S : \E s \in S : x \in Elements(next[s])
  PROVE  \E T \in SUBSET S : T # {} /\ GoesOn(T)
<1> DEFINE Fed(T) == \A x \in T : \E s \in T : x \in Elements(next[s])
           all == {T \in SUBSET S : T # {} /\ Fed(T)}
<1>1. all \subseteq FiniteSubsetsOf(S) /\ S \in all
  BY FS_Subset DEF FiniteSubsetsOf
<1>2. PICK T \in all : \A U \in all : <<U, T>> \notin StrictSubsetOrdering(S)
  <2> HIDE DEF all
  <2> QED
    BY <1>1, FS_StrictSubsetOrderingWellFounded, WFMin
<1>3. T \subseteq S /\ T # {} /\ Fed(T)
  OBVIOUS
<1>4. ASSUME NEW s \in T, \A p \in T : p \notin Elements(next[s]) PROVE FALSE
  <2> DEFINE U == T \ {s}
  <2>1. PICK r \in T : s \in Elements(next[r])
    BY <1>3
  <2>2. r \in U
    BY <1>4, <2>1
  <2>3. Fed(U)
    BY <1>3, <1>4
  <2>4. U \in all
    BY <1>3, <2>2, <2>3
  <2>5. <<U, T>> \in StrictSubsetOrdering(S)
    BY <1>3 DEF StrictSubsetOrdering
  <2> QED
    BY <1>2, <2>4, <2>5
<1> QED
  BY <1>3, <1>4 DEF GoesOn

LEMMA CoverInvCovers == CoverInv => Coverage
<1> SUFFICES ASSUME CoverInv, phase = "started", Together, SinksLast,
                    NEW p \in Steps, prev[p] # {}, p \notin Elements(ran)
             PROVE  FALSE
  BY DEF Coverage
<1> DEFINE left == {s \in Steps : Reached(s) /\ s \notin Elements(ran)}
<1>1. /\ upstream = {} /\ stack = <<>> /\ toEmit = {} /\ Sources \subseteq Elements(ran)
      /\ next \in Graphs /\ prev \in [Pids -> SUBSET Steps]
  BY DEF CoverInv, WalkInv, TypeOK, FlowsKept, Ends
<1>2. ASSUME NEW x \in left PROVE \E s \in left : x \in Elements(next[s])
  <2>1. x \in Steps /\ x \in Pids /\ x # Parent /\ prev[x] # {} /\ x \notin Elements(ran)
    BY <1>1, PipelineAssumption DEF Reached, Pids
  <2>2. PICK s \in prev[x] : s \notin Transformed(ran)
    BY <1>1, <2>1 DEF CoverInv, Pending, Waits
  <2>3. s \in Steps /\ Reached(s) /\ x \in Elements(next[s])
    BY <1>1, <2>1, <2>2 DEF CoverInv, Circling
  <2>4. s \notin Sinks
    <3>1. DOMAIN <<Parent>> = {1} /\ <<Parent>>[1] = Parent
      <4>1. DOMAIN <<Parent>> = 1 .. 1 /\ 1 .. 1 = {1}
        OBVIOUS
      <4> QED
        BY <4>1
    <3>2. Elements(<<Parent>>) = {Parent}
      BY <3>1 DEF Elements
    <3> QED
      BY <2>1, <2>3, <3>2 DEF SinksLast
  <2>5. s \notin Elements(ran)
    BY <2>2, <2>3, <2>4 DEF Transformed, Steps
  <2> QED
    BY <2>3, <2>5
<1>3. p \in left
  BY DEF Reached
<1>4. IsFiniteSet(left) /\ left \in SUBSET Steps
  BY PipelineAssumption, FS_Subset
<1>5. PICK T \in SUBSET left : T # {} /\ GoesOn(T)
  <2> HIDE DEF left
  <2> QED
    BY <1>2, <1>3, <1>4, SomeCircle
<1>6. T \in SUBSET Steps /\ \E s \in T : Reached(s)
  BY <1>5
<1> QED
  BY <1>1, <1>5, <1>6 DEF CoverInv, Circling

\* For every graph in which steps listed together have the same inputs and nothing
\* follows a sink, a pipeline that starts contains every step that can be reached.
THEOREM NothingLeftOut == Spec => []Coverage
<1>1. Init => CoverInv
  <2> SUFFICES ASSUME Init PROVE CoverInv
    OBVIOUS
  <2>1. TypeOK /\ FlowsKept
    BY DEF Init, TypeOK, FlowsKept, Reached, Steps, Pids
  <2>2. /\ stack = <<>> /\ ran = <<>> /\ upstream = Sources /\ toEmit = Sources
        /\ phase = "flows" /\ prev = [x \in Pids |-> {}]
    BY DEF Init
  <2>3. WalkInv
    BY <2>1, <2>2 DEF WalkInv, Walk, ReadyFrames, RanReady, InputsFirst, Elements
  <2>4. \A s \in Steps : Reached(s) => s \in upstream
    BY <2>2 DEF Reached, Pids
  <2>5. Circling
    BY <2>2, <2>4 DEF Circling, Reached
  <2>6. Transformed(ran) = {}
    BY <2>2 DEF Transformed, Elements
  <2> QED
    BY <2>2, <2>3, <2>5, <2>6 DEF CoverInv, Pending, Ends
<1>2. CoverInv /\ [Next]_vars => CoverInv'
  BY CoverStep
<1> QED
  BY <1>1, <1>2, CoverInvCovers, PTL DEF Spec
=============================================================================
