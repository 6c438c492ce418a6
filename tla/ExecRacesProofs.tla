-------------------------- MODULE ExecRacesProofs ---------------------------
(***************************************************************************)
(* What overlapping transactions cannot spoil: for any steps, any clients  *)
(* that serve any processes, one process several clients included, and any *)
(* bound.                                                                  *)
(***************************************************************************)
EXTENDS ExecRaces, FiniteSetTheorems, TLAPS

\* The calls for a process name that process, and a row that was running when
\* the call read the table, or a new one when none was.
Sound(w, p) ==
  /\ w \in Call /\ w.proc = p
  /\ IF w.row = New THEN Running(p) = {} /\ w.state = "running"
     ELSE w.row \in Running(p) /\ w.state \in {"success", "failed"}

LEMMA CallsAreSound ==
  ASSUME TypeOK, NEW p \in Processes, NEW w \in CallsFor(p)
  PROVE  Sound(w, p)
<1>1. DOMAIN execs[p] = 1 .. Len(execs[p]) /\ Len(execs[p]) \in Nat
  BY DEF TypeOK
<1>2. \A i \in Running(p) : i \in Nat /\ i # New
  BY <1>1 DEF Running, New
<1>3. Running(p) = {} => Sound(Starts(p), p)
  BY DEF Sound, Starts, Call, ExecState, New
<1>4. \A i \in Running(p), state \in {"success", "failed"} : Sound(Ends(p, i, state), p)
  BY <1>2 DEF Sound, Ends, Call, ExecState
<1>5. CASE p = Job
  <2>1. CASE w \in InitJob
    BY <1>3, <1>5, <2>1 DEF InitJob
  <2>2. CASE w \in HaltJob
    BY <1>4, <1>5, <2>2 DEF HaltJob
  <2>3. CASE w \in TermJob
    BY <1>4, <1>5, <2>3 DEF TermJob, Oldest
  <2> QED
    BY <1>5, <2>1, <2>2, <2>3 DEF CallsFor
<1>6. CASE p # Job
  <2>1. CASE w \in InitStep(p)
    BY <1>3, <2>1 DEF InitStep
  <2>2. ASSUME NEW state \in {"success", "failed"}, w \in EndStep(p, state)
        PROVE  Sound(w, p)
    BY <1>4, <2>2 DEF EndStep, Oldest
  <2> QED
    BY <1>6, <2>1, <2>2 DEF CallsFor
<1> QED
  BY <1>5, <1>6

-----------------------------------------------------------------------------
\* Every step keeps the types, however the calls overlap.
LEMMA TypeStep == RacesAssumption /\ TypeOK /\ [Next]_vars => TypeOK'
<1> SUFFICES ASSUME RacesAssumption, TypeOK, [Next]_vars PROVE TypeOK'
  OBVIOUS
<1>1. ASSUME NEW c \in Clients, Read(c) PROVE TypeOK'
  <2>1. PICK p \in Serves[c] : \E w \in CallsFor(p) : call' = [call EXCEPT ![c] = w]
    BY <1>1 DEF Read
  <2>2. p \in Processes
    BY DEF RacesAssumption
  <2>3. PICK w \in CallsFor(p) : call' = [call EXCEPT ![c] = w]
    BY <2>1
  <2>4. w \in Call
    BY <2>2, CallsAreSound DEF Sound
  <2> QED
    BY <1>1, <2>3, <2>4 DEF TypeOK, Read
<1>2. ASSUME NEW c \in Clients, Commit(c) PROVE TypeOK'
  <2> DEFINE w == call[c]
  <2>1. w \in Call
    BY <1>2 DEF Commit, TypeOK
  <2>2. execs[w.proc] \in Seq(ExecState) /\ w.state \in ExecState /\ w.proc \in Processes
    BY <2>1 DEF Call, TypeOK
  <2>3. Append(execs[w.proc], w.state) \in Seq(ExecState)
    BY <2>2
  <2>4. ASSUME NEW e \in Seq(ExecState), NEW i, NEW state \in ExecState
        PROVE  [e EXCEPT ![i] = state] \in Seq(ExecState)
    <3>1. e \in [1 .. Len(e) -> ExecState] /\ Len(e) \in Nat
      BY <2>4
    <3>2. [e EXCEPT ![i] = state] \in [1 .. Len(e) -> ExecState]
      BY <3>1, <2>4, ZenonT(30)
    <3> QED
      BY <3>1, <3>2
  <2>5. execs' \in [Processes -> Seq(ExecState)]
    BY <1>2, <2>2, <2>3, <2>4 DEF Commit, TypeOK
  <2> QED
    BY <1>2, <2>5 DEF Commit, TypeOK
<1>3. ASSUME NEW c \in Clients, Rollback(c) PROVE TypeOK'
  BY <1>3 DEF Rollback, TypeOK
<1>4. CASE UNCHANGED vars
  BY <1>4 DEF vars, TypeOK
<1> QED
  BY <1>1, <1>2, <1>3, <1>4 DEF Next

\* The tables keep their types.
THEOREM TypeCorrect == ASSUME RacesAssumption PROVE Spec => []TypeOK
<1>1. Init => TypeOK
  BY DEF Init, TypeOK
<1> QED
  BY <1>1, TypeStep, PTL DEF Spec

-----------------------------------------------------------------------------
(***************************************************************************)
(* The inductive invariant counts, with the executions of a process that   *)
(* run, the calls that are going to start one.  A call is decided to start *)
(* one when none runs, and then they are clients of the process.           *)
(***************************************************************************)
Starting(p) == {c \in Clients : call[c].state = "running" /\ call[c].proc = p}
Decided ==
  \A c \in Clients : call[c] # Idle =>
    /\ call[c].proc \in Serves[c]
    /\ call[c].row = New <=> call[c].state = "running"
Bounded ==
  \A p \in Processes :
    Cardinality(Running(p)) + Cardinality(Starting(p)) <= Cardinality(Servers(p))
Inv == TypeOK /\ Decided /\ Bounded

LEMMA Finite ==
  ASSUME RacesAssumption, TypeOK, Decided, NEW p \in Processes
  PROVE  /\ IsFiniteSet(Running(p)) /\ Cardinality(Running(p)) \in Nat
         /\ IsFiniteSet(Starting(p)) /\ Cardinality(Starting(p)) \in Nat
         /\ IsFiniteSet(Servers(p)) /\ Cardinality(Servers(p)) \in Nat
         /\ Cardinality(Starting(p)) <= Cardinality(Servers(p))
<1>1. IsFiniteSet(Running(p))
  <2>1. Len(execs[p]) \in Nat /\ Running(p) \in SUBSET (1 .. Len(execs[p]))
    BY DEF TypeOK, Running
  <2>2. IsFiniteSet(1 .. Len(execs[p]))
    BY <2>1, FS_Interval
  <2> QED
    BY <2>1, <2>2, FS_Subset
<1>2. Servers(p) \in SUBSET Clients /\ Starting(p) \in SUBSET Servers(p)
  BY DEF Servers, Starting, Decided, Idle
<1>3. IsFiniteSet(Servers(p))
  BY <1>2, FS_Subset DEF RacesAssumption
<1>4. IsFiniteSet(Starting(p)) /\ Cardinality(Starting(p)) <= Cardinality(Servers(p))
  BY <1>2, <1>3, FS_Subset
<1> QED
  BY <1>1, <1>3, <1>4, FS_CardinalityType

\* A call that ends without a commit leaves no more to count than there was.
LEMMA FewerStarting ==
  ASSUME RacesAssumption, Inv, TypeOK', Decided', NEW p \in Processes,
         Running(p)' \subseteq Running(p), Starting(p)' \subseteq Starting(p)
  PROVE  (Cardinality(Running(p)) + Cardinality(Starting(p)) <= Cardinality(Servers(p)))'
<1> DEFINE run == Running(p)'
           begin == Starting(p)'
<1>1. run \in SUBSET Running(p) /\ begin \in SUBSET Starting(p)
  OBVIOUS
<1>2. Servers(p)' = Servers(p)
  BY DEF Servers
<1> HIDE DEF run, begin
<1>3. Cardinality(run) <= Cardinality(Running(p)) /\ Cardinality(run) \in Nat
  BY <1>1, Finite, FS_Subset, FS_CardinalityType DEF Inv
<1>4. Cardinality(begin) <= Cardinality(Starting(p)) /\ Cardinality(begin) \in Nat
  BY <1>1, Finite, FS_Subset, FS_CardinalityType DEF Inv
<1>5. /\ Cardinality(Running(p)) \in Nat /\ Cardinality(Starting(p)) \in Nat
      /\ Cardinality(Servers(p)) \in Nat
      /\ Cardinality(Running(p)) + Cardinality(Starting(p)) <= Cardinality(Servers(p))
  BY Finite DEF Inv, Bounded
<1>6. Cardinality(run) + Cardinality(begin) <= Cardinality(Servers(p))
  BY <1>3, <1>4, <1>5
<1> QED
  BY <1>2, <1>6 DEF run, begin

LEMMA InvStep == RacesAssumption /\ Inv /\ [Next]_vars => Inv'
<1> SUFFICES ASSUME RacesAssumption, Inv, [Next]_vars PROVE Decided' /\ Bounded'
  BY TypeStep DEF Inv
<1>0. TypeOK /\ Decided /\ Bounded /\ TypeOK'
  BY TypeStep DEF Inv
<1>1. ASSUME NEW c \in Clients, Read(c) PROVE Decided' /\ Bounded'
  <2>1. PICK p \in Serves[c] : \E w \in CallsFor(p) : call' = [call EXCEPT ![c] = w]
    BY <1>1 DEF Read
  <2>2. PICK w \in CallsFor(p) : call' = [call EXCEPT ![c] = w]
    BY <2>1
  <2>3. p \in Processes /\ execs' = execs
    BY <1>1 DEF RacesAssumption, Read
  <2>4. Sound(w, p)
    BY <1>0, <2>3, CallsAreSound
  <2>5. \A d \in Clients : call'[d] = IF d = c THEN w ELSE call[d]
    BY <1>0, <2>2 DEF TypeOK
  <2>6. Decided'
    BY <1>0, <2>4, <2>5 DEF Decided, Sound
  <2>7. ASSUME NEW q \in Processes
        PROVE  (Cardinality(Running(q)) + Cardinality(Starting(q)) <= Cardinality(Servers(q)))'
    <3>1. Running(q)' = Running(q) /\ Servers(q)' = Servers(q)
      BY <2>3 DEF Running, Servers
    <3>2. CASE q = p /\ w.row = New
      <4>1. Running(q)' = {}
        BY <2>4, <3>1, <3>2 DEF Sound
      <4> DEFINE begin == Starting(q)'
                 servers == Servers(q)'
      <4>2. begin \in SUBSET servers /\ servers \in SUBSET Clients
        BY <2>6 DEF Starting, Decided, Idle, Servers
      <4> HIDE DEF begin, servers
      <4>3. Cardinality(begin) <= Cardinality(servers) /\ Cardinality(begin) \in Nat
        BY <4>2, FS_Subset, FS_CardinalityType DEF RacesAssumption
      <4>4. 0 + Cardinality(begin) <= Cardinality(servers)
        BY <4>3
      <4> QED
        BY <4>1, <4>4, FS_EmptySet DEF begin, servers
    <3>3. CASE ~(q = p /\ w.row = New)
      <4>1. Starting(q)' \subseteq Starting(q)
        BY <2>4, <2>5, <3>3 DEF Starting, Sound
      <4> QED
        BY <1>0, <2>6, <3>1, <4>1, FewerStarting
    <3> QED
      BY <3>2, <3>3
  <2> QED
    BY <2>6, <2>7 DEF Bounded
<1>2. ASSUME NEW c \in Clients, Commit(c) PROVE Decided' /\ Bounded'
  <2>0. PICK w, p : w = call[c] /\ p = w.proc
    OBVIOUS
  <2>1. /\ w \in Call /\ p \in Processes /\ w # Idle
        /\ w.row = New <=> w.state = "running"
    BY <1>0, <1>2, <2>0 DEF Commit, TypeOK, Call, Decided
  <2>2. /\ execs' = IF w.row = New THEN [execs EXCEPT ![p] = Append(@, w.state)]
                    ELSE [execs EXCEPT ![p][w.row] = w.state]
        /\ call' = [call EXCEPT ![c] = Idle]
    BY <1>2, <2>0 DEF Commit
  <2>3. \A d \in Clients : call'[d] = IF d = c THEN Idle ELSE call[d]
    BY <1>0, <2>2 DEF TypeOK
  <2>4. Decided'
    BY <1>0, <2>3 DEF Decided
  <2>5. execs[p] \in Seq(ExecState) /\ \A q \in Processes \ {p} : execs'[q] = execs[q]
    BY <1>0, <2>1, <2>2 DEF TypeOK
  <2>6. c \in Starting(p) <=> w.row = New
    BY <2>0, <2>1 DEF Starting
  <2>7. \A q \in Processes : Starting(q)' \subseteq Starting(q) /\ Servers(q)' = Servers(q)
    BY <2>3 DEF Starting, Idle, Servers
  <2>8. CASE w.row # New
    <3>1. w.state # "running"
      BY <2>1, <2>8
    <3>2. execs'[p] = [execs[p] EXCEPT ![w.row] = w.state]
      BY <1>0, <2>1, <2>2, <2>8 DEF TypeOK
    <3>3. \A q \in Processes : Running(q)' \subseteq Running(q)
      BY <2>5, <3>1, <3>2 DEF Running
    <3> QED
      BY <1>0, <2>4, <2>7, <3>3, FewerStarting DEF Bounded
  <2>9. CASE w.row = New
    <3>1. execs'[p] = Append(execs[p], "running")
      BY <1>0, <2>1, <2>2, <2>9 DEF TypeOK
    <3>2. Running(p)' = Running(p) \union {Len(execs[p]) + 1} /\ Len(execs[p]) + 1 \notin Running(p)
      BY <2>5, <3>1 DEF Running
    <3>3. Starting(p)' = Starting(p) \ {c} /\ c \in Starting(p)
      BY <2>3, <2>6, <2>9 DEF Starting, Idle
    <3> DEFINE run == Running(p)
               begin == Starting(p)
    <3> HIDE DEF run, begin
    <3>4. /\ IsFiniteSet(run) /\ Cardinality(run) \in Nat
          /\ IsFiniteSet(begin) /\ Cardinality(begin) \in Nat
          /\ Cardinality(run) + Cardinality(begin) <= Cardinality(Servers(p))
      BY <1>0, <2>1, Finite DEF Bounded, run, begin
    <3>5. Cardinality(run \union {Len(execs[p]) + 1}) = Cardinality(run) + 1
      BY <3>2, <3>4, FS_AddElement DEF run
    <3>6. Cardinality(begin \ {c}) = Cardinality(begin) - 1
      BY <3>3, <3>4, FS_RemoveElement DEF begin
    <3>7. Cardinality(run \union {Len(execs[p]) + 1}) + Cardinality(begin \ {c})
            = Cardinality(run) + Cardinality(begin)
      BY <3>4, <3>5, <3>6
    <3>8. (Cardinality(Running(p)) + Cardinality(Starting(p)) <= Cardinality(Servers(p)))'
      BY <2>1, <2>7, <3>2, <3>3, <3>4, <3>7 DEF run, begin
    <3>9. \A q \in Processes \ {p} : Running(q)' = Running(q)
      BY <2>5 DEF Running
    <3> QED
      BY <1>0, <2>4, <2>7, <3>8, <3>9, FewerStarting DEF Bounded
  <2> QED
    BY <2>8, <2>9
<1>3. ASSUME NEW c \in Clients, Rollback(c) PROVE Decided' /\ Bounded'
  <2>1. execs' = execs /\ \A d \in Clients : call'[d] = IF d = c THEN Idle ELSE call[d]
    BY <1>0, <1>3 DEF Rollback, TypeOK
  <2>2. Decided'
    BY <1>0, <2>1 DEF Decided
  <2>3. \A q \in Processes : Running(q)' = Running(q) /\ Starting(q)' \subseteq Starting(q)
    BY <2>1 DEF Running, Starting, Idle
  <2> QED
    BY <1>0, <2>2, <2>3, FewerStarting DEF Bounded
<1>4. CASE UNCHANGED vars
  BY <1>0, <1>4 DEF vars, Decided, Bounded, Running, Starting, Servers
<1> QED
  BY <1>1, <1>2, <1>3, <1>4 DEF Next

\* A process never has more executions running than clients that serve it, however
\* their calls overlap: one, when one client serves it.
THEOREM RunningIsBounded == ASSUME RacesAssumption PROVE Spec => []OneEach
<1>1. Init => Inv
  <2> SUFFICES ASSUME Init PROVE Inv
    OBVIOUS
  <2>1. TypeOK /\ Decided
    BY DEF Init, TypeOK, Decided
  <2>2. ASSUME NEW p \in Processes
        PROVE  Cardinality(Running(p)) + Cardinality(Starting(p)) <= Cardinality(Servers(p))
    <3>1. Running(p) = {} /\ Starting(p) = {}
      BY DEF Init, Running, Starting, Idle
    <3>2. Cardinality(Servers(p)) \in Nat
      BY <2>1, Finite
    <3> QED
      BY <3>1, <3>2, FS_EmptySet
  <2> QED
    BY <2>1, <2>2 DEF Inv, Bounded
<1>2. Inv /\ [Next]_vars => Inv'
  BY InvStep
<1>3. Inv => OneEach
  <2> SUFFICES ASSUME Inv, NEW p \in Processes
               PROVE  Cardinality(Running(p)) <= Cardinality(Servers(p))
    BY DEF OneEach
  <2>1. /\ Cardinality(Running(p)) \in Nat /\ Cardinality(Starting(p)) \in Nat
        /\ Cardinality(Servers(p)) \in Nat
    BY Finite DEF Inv
  <2> QED
    BY <2>1 DEF Inv, Bounded
<1> QED
  BY <1>1, <1>2, <1>3, PTL DEF Spec

=============================================================================
