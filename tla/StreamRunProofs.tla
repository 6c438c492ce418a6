--------------------------- MODULE StreamRunProofs ---------------------------
(***************************************************************************)
(* For any number of executions and overlapping calls of killProcess, a    *)
(* row that says KILLED names an application that YARN has killed.         *)
(*                                                                         *)
(* That the application a call has killed is the one it writes down is     *)
(* what the proof turns on: the call writes back its own copy of the row,  *)
(* whatever the row says by then.                                          *)
(***************************************************************************)
EXTENDS StreamRun, TLAPS

Apps == 0 .. Len(drivers)

\* Whoever is about to write a row writes an application that exists.
AppsExist ==
  /\ \A i \in DOMAIN rows : rows[i].app \in Apps
  /\ \A d \in DOMAIN drivers : drivers[d].app \in Apps
  /\ \A k \in Killers : /\ kill[k].app \in Apps
                        /\ kill[k].phase # "idle" => kill[k].app # NoApp

\* A call writes only after YARN has done what it asked for.
KillsAreReal ==
  /\ \A k \in Killers : kill[k].phase = "write" => kill[k].app \in killed
  /\ \A i \in DOMAIN rows : rows[i].state = "KILLED" => rows[i].app \in killed

Inv == TypeOK /\ AppsExist /\ KillsAreReal

-----------------------------------------------------------------------------
\* Writing back a row (InstanceExecDAO.update) keeps what holds of the rows when
\* it holds of what is written.
LEMMA WriteKeeps ==
  ASSUME Inv, NEW row \in Nat, NEW state \in {"RUNNING", "KILLED", "FAILED"},
         NEW app \in Apps, state = "KILLED" => app \in killed,
         Write(row, state, app)
  PROVE  /\ rows' \in Seq(Row)
         /\ \A i \in DOMAIN rows' : rows'[i].app \in Apps
         /\ \A i \in DOMAIN rows' : rows'[i].state = "KILLED" => rows'[i].app \in killed
<1> DEFINE new == [state |-> state, app |-> app]
<1>1. new \in Row
  BY DEF Row, Apps
<1>2. rows \in Seq(Row)
  BY DEF Inv, TypeOK
<1>3. rows' \in Seq(Row) /\ DOMAIN rows' = DOMAIN rows
  <2>1. rows' = [rows EXCEPT ![row] = new]
    BY DEF Write
  <2> HIDE DEF new
  <2>2. Len(rows) \in Nat /\ rows \in [1 .. Len(rows) -> Row]
    BY <1>2
  <2>3. rows' \in [1 .. Len(rows) -> Row]
    BY <1>1, <2>1, <2>2
  <2> QED
    BY <2>2, <2>3
<1>4. \A i \in DOMAIN rows : rows'[i] = IF i = row THEN new ELSE rows[i]
  BY <1>2 DEF Write
<1> QED
  BY <1>3, <1>4 DEF Inv, AppsExist, KillsAreReal

\* A driver that goes on to another phase (StreamAnalyticsDriver) is still a
\* driver, with an application that exists.
LEMMA SetDriverKeeps ==
  ASSUME Inv, NEW d \in DOMAIN drivers, NEW row \in Nat, NEW app \in Apps,
         NEW phase \in {"launched", "connecting", "running", "failing", "dead"},
         SetDriver(d, phase, row, app)
  PROVE  /\ drivers' \in Seq(Driver) /\ Len(drivers') = Len(drivers)
         /\ \A e \in DOMAIN drivers' : drivers'[e].app \in Apps
<1> DEFINE new == [phase |-> phase, row |-> row, app |-> app]
<1>1. new \in Driver
  BY DEF Driver, Apps
<1>2. drivers \in Seq(Driver)
  BY DEF Inv, TypeOK
<1>3. /\ drivers' \in Seq(Driver) /\ Len(drivers') = Len(drivers)
      /\ DOMAIN drivers' = DOMAIN drivers
  BY <1>1, <1>2 DEF SetDriver
<1>4. \A e \in DOMAIN drivers : drivers'[e] = IF e = d THEN new ELSE drivers[e]
  BY <1>2 DEF SetDriver
<1> QED
  BY <1>3, <1>4 DEF Inv, AppsExist

\* A driver's step that writes no row.
LEMMA DriverStep ==
  ASSUME Inv, NEW d \in DOMAIN drivers, NEW row \in Nat, NEW app \in Apps,
         NEW phase \in {"launched", "connecting", "running", "failing", "dead"},
         SetDriver(d, phase, row, app),
         UNCHANGED <<rows, inserts, killed, kill>>
  PROVE  Inv'
<1>1. /\ drivers' \in Seq(Driver) /\ Len(drivers') = Len(drivers)
      /\ \A e \in DOMAIN drivers' : drivers'[e].app \in Apps
  BY SetDriverKeeps
<1>2. Apps' = Apps /\ DOMAIN drivers' = DOMAIN drivers
  BY <1>1 DEF Apps, Inv, TypeOK
<1>3. TypeOK'
  BY <1>1, <1>2 DEF Inv, TypeOK
<1>4. AppsExist'
  BY <1>1, <1>2 DEF Inv, AppsExist
<1>5. KillsAreReal'
  BY DEF Inv, KillsAreReal
<1> QED
  BY <1>3, <1>4, <1>5 DEF Inv

\* A driver's step that writes the row it read.
LEMMA DriverWrite ==
  ASSUME Inv, NEW d \in DOMAIN drivers,
         NEW phase \in {"launched", "connecting", "running", "failing", "dead"},
         NEW state \in {"RUNNING", "FAILED"},
         Write(drivers[d].row, state, drivers[d].app),
         SetDriver(d, phase, NoRow, NoApp),
         UNCHANGED <<inserts, killed, kill>>
  PROVE  Inv'
<1>1. drivers[d].row \in Nat /\ drivers[d].app \in Apps
  <2>1. drivers[d] \in Driver
    BY DEF Inv, TypeOK
  <2> QED
    BY <2>1 DEF Driver, Inv, AppsExist
<1>2. NoRow \in Nat /\ NoApp \in Apps
  BY DEF NoRow, NoApp, Apps, Inv, TypeOK
<1>3. /\ drivers' \in Seq(Driver) /\ Len(drivers') = Len(drivers)
      /\ \A e \in DOMAIN drivers' : drivers'[e].app \in Apps
  BY <1>2, SetDriverKeeps
<1>4. /\ rows' \in Seq(Row)
      /\ \A i \in DOMAIN rows' : rows'[i].app \in Apps
      /\ \A i \in DOMAIN rows' : rows'[i].state = "KILLED" => rows'[i].app \in killed
  BY <1>1, WriteKeeps
<1>5. Apps' = Apps /\ DOMAIN drivers' = DOMAIN drivers
  BY <1>3 DEF Apps, Inv, TypeOK
<1>6. TypeOK'
  BY <1>3, <1>4, <1>5 DEF Inv, TypeOK
<1>7. AppsExist'
  BY <1>3, <1>4, <1>5 DEF Inv, AppsExist
<1>8. KillsAreReal'
  BY <1>4 DEF Inv, KillsAreReal
<1> QED
  BY <1>6, <1>7, <1>8 DEF Inv

\* The latest row of a process (getLatestExecofProcess) is one of its rows.
LEMMA LatestRow ==
  ASSUME Inv, rows # <<>>
  PROVE  /\ Latest \in Nat /\ rows[Latest] \in Row
         /\ rows[Latest].app \in Apps
<1>1. rows \in Seq(Row)
  BY DEF Inv, TypeOK
<1>2. Latest \in DOMAIN rows
  BY <1>1 DEF Latest
<1> QED
  BY <1>1, <1>2 DEF Inv, AppsExist

\* A call of killProcess in any phase, with an application that exists.
LEMMA KillStep ==
  ASSUME Inv, NEW k \in Killers, NEW new \in Kill, new.app \in Apps,
         new.phase # "idle" => new.app # NoApp,
         new.phase = "write" => new.app \in killed',
         kill' = [kill EXCEPT ![k] = new],
         killed' \in SUBSET (DOMAIN drivers), killed \subseteq killed',
         UNCHANGED <<rows, inserts, drivers>>
  PROVE  Inv'
<1>1. \A j \in Killers : kill'[j] = IF j = k THEN new ELSE kill[j]
  BY DEF Inv, TypeOK
<1>2. TypeOK'
  BY DEF Inv, TypeOK
<1>3. AppsExist'
  BY <1>1 DEF Inv, AppsExist, Apps
<1>4. KillsAreReal'
  BY <1>1 DEF Inv, KillsAreReal
<1> QED
  BY <1>2, <1>3, <1>4 DEF Inv

-----------------------------------------------------------------------------
\* Nothing is there at first.
LEMMA InitInv == Init => Inv
  BY DEF Init, Inv, TypeOK, AppsExist, KillsAreReal, Kill, NoRow, NoApp, Apps, Row, Driver

\* Every step of executeProcess, of a driver and of killProcess keeps the
\* invariant.
LEMMA NextInv ==
  ASSUME Inv, [Next]_vars
  PROVE  Inv'
<1> USE DEF NoRow, NoApp
<1>0. 0 \in Apps /\ drivers \in Seq(Driver) /\ rows \in Seq(Row)
  BY DEF Apps, Inv, TypeOK
<1>1. CASE Execute
  <2> DEFINE new == [phase |-> "launched", row |-> NoRow, app |-> NoApp]
  <2>1. new \in Driver
    BY DEF Driver
  <2>2. drivers' \in Seq(Driver) /\ Len(drivers') = Len(drivers) + 1
    BY <1>0, <1>1, <2>1 DEF Execute
  <2>3. \A d \in DOMAIN drivers' :
          drivers'[d] = IF d \in DOMAIN drivers THEN drivers[d] ELSE new
    BY <1>0, <1>1 DEF Execute
  <2>4. Apps \subseteq Apps' /\ DOMAIN drivers \subseteq DOMAIN drivers'
    BY <1>0, <2>2 DEF Apps
  <2>5. TypeOK'
    BY <1>1, <2>2, <2>4 DEF Execute, Inv, TypeOK
  <2>6. AppsExist'
    BY <1>0, <1>1, <2>3, <2>4 DEF Execute, Inv, AppsExist
  <2>7. KillsAreReal'
    BY <1>1 DEF Execute, Inv, KillsAreReal
  <2> QED
    BY <2>5, <2>6, <2>7 DEF Inv
<1>2. CASE Insert
  <2> DEFINE new == [state |-> "STARTED", app |-> NoApp]
  <2>1. UNCHANGED <<drivers, killed, kill>> /\ inserts' \in Nat
    BY <1>2 DEF Insert, Inv, TypeOK
  <2>2. new \in Row
    BY DEF Row
  <2>3. /\ rows' \in Seq(Row)
        /\ \A i \in DOMAIN rows' :
             rows'[i] = IF i \in DOMAIN rows THEN rows[i] ELSE new
    <3>1. CASE Inserted
      BY <1>0, <2>2, <3>1 DEF Inserted
    <3>2. CASE UNCHANGED rows
      BY <1>0, <3>2
    <3> QED
      BY <1>2, <3>1, <3>2 DEF Insert
  <2>4. TypeOK'
    BY <2>1, <2>3 DEF Inv, TypeOK
  <2>5. AppsExist'
    BY <1>0, <2>1, <2>3 DEF Inv, AppsExist, Apps
  <2>6. KillsAreReal'
    BY <2>1, <2>3 DEF Inv, KillsAreReal
  <2> QED
    BY <2>4, <2>5, <2>6 DEF Inv
<1>3. ASSUME NEW d \in DOMAIN drivers, Connect(d) PROVE Inv'
  <2>1. CASE rows = <<>>
    BY <1>0, <1>3, <2>1, DriverStep DEF Connect, Stop
  <2>2. CASE rows # <<>>
    <3>1. d \in Apps
      BY <1>0 DEF Apps
    <3> QED
      BY <1>3, <2>2, <3>1, LatestRow, DriverStep DEF Connect
  <2> QED
    BY <2>1, <2>2
<1>4. ASSUME NEW d \in DOMAIN drivers, Connected(d) PROVE Inv'
  BY <1>4, DriverWrite DEF Connected
<1>5. ASSUME NEW d \in DOMAIN drivers, Fail(d) PROVE Inv'
  <2>1. CASE rows = <<>>
    BY <1>0, <1>5, <2>1, DriverStep DEF Fail, Stop
  <2>2. CASE rows # <<>>
    BY <1>5, <2>2, LatestRow, DriverStep DEF Fail
  <2> QED
    BY <2>1, <2>2
<1>6. ASSUME NEW d \in DOMAIN drivers, Failed(d) PROVE Inv'
  BY <1>6, DriverWrite DEF Failed, Stop
<1>7. ASSUME NEW d \in DOMAIN drivers, Die(d) PROVE Inv'
  BY <1>0, <1>7, DriverStep DEF Die, Stop
<1>8. ASSUME NEW k \in Killers, KillRead(k) PROVE Inv'
  <2> DEFINE new == [phase |-> "yarn", row |-> Latest, app |-> rows[Latest].app]
  <2>1. new \in Kill /\ new.app \in Apps /\ new.app # NoApp
    BY <1>8, LatestRow DEF KillRead, Kill, Row
  <2> QED
    BY <1>8, <2>1, KillStep DEF KillRead, Inv, TypeOK
<1>9. ASSUME NEW k \in Killers, YarnKill(k) PROVE Inv'
  <2>1. /\ kill[k] \in Kill /\ kill[k].app \in Apps /\ kill[k].app # NoApp
        /\ kill[k].app \in DOMAIN drivers
    BY <1>0, <1>9 DEF YarnKill, Inv, TypeOK, AppsExist, Apps
  <2>2. ASSUME NEW p \in {"idle", "write"} PROVE
          /\ [kill[k] EXCEPT !.phase = p] \in Kill
          /\ [kill[k] EXCEPT !.phase = p].app = kill[k].app
          /\ [kill[k] EXCEPT !.phase = p].phase = p
    BY <2>1 DEF Kill
  <2>3. CASE killed' = killed \union {kill[k].app}
             /\ kill' = [kill EXCEPT ![k].phase = "write"]
    <3> DEFINE new == [kill[k] EXCEPT !.phase = "write"]
    <3>1. kill' = [kill EXCEPT ![k] = new]
      BY <2>3
    <3>2. killed' \in SUBSET (DOMAIN drivers) /\ killed \subseteq killed'
      BY <2>1, <2>3 DEF Inv, TypeOK
    <3>3. new \in Kill /\ new.app = kill[k].app
      BY <2>2
    <3>4. new.app \in Apps /\ new.app # NoApp /\ new.app \in killed'
      BY <2>1, <2>3, <3>3
    <3> HIDE DEF new
    <3> QED
      BY <1>9, <3>1, <3>2, <3>3, <3>4, KillStep DEF YarnKill
  <2>4. CASE kill' = [kill EXCEPT ![k].phase = "idle"] /\ UNCHANGED killed
    <3> DEFINE new == [kill[k] EXCEPT !.phase = "idle"]
    <3>1. kill' = [kill EXCEPT ![k] = new]
      BY <2>4
    <3>2. new \in Kill /\ new.app \in Apps /\ new.phase = "idle"
      BY <2>1, <2>2
    <3> HIDE DEF new
    <3> QED
      BY <1>9, <2>4, <3>1, <3>2, KillStep DEF YarnKill, Inv, TypeOK
  <2> QED
    BY <1>9, <2>3, <2>4 DEF YarnKill
<1>10. ASSUME NEW k \in Killers, KillWrite(k) PROVE Inv'
  <2>1. /\ kill[k] \in Kill /\ kill[k].app \in Apps /\ kill[k].app \in killed
        /\ kill[k].row \in Nat
    BY <1>10 DEF KillWrite, Inv, TypeOK, AppsExist, KillsAreReal, Kill
  <2>2. /\ rows' \in Seq(Row)
        /\ \A i \in DOMAIN rows' : rows'[i].app \in Apps
        /\ \A i \in DOMAIN rows' : rows'[i].state = "KILLED" => rows'[i].app \in killed
    BY <1>10, <2>1, WriteKeeps DEF KillWrite
  <2>3. /\ kill' \in [Killers -> Kill]
        /\ \A j \in Killers : kill'[j] = IF j = k THEN [kill[k] EXCEPT !.phase = "idle"]
                                         ELSE kill[j]
    BY <1>10, <2>1 DEF KillWrite, Inv, TypeOK, Kill
  <2>4. \A j \in Killers : kill'[j].app = kill[j].app
    BY <2>1, <2>3 DEF Kill
  <2>5. \A j \in Killers : kill'[j].phase # "idle" => kill'[j] = kill[j]
    BY <2>1, <2>3 DEF Kill
  <2>6. TypeOK'
    BY <1>10, <2>2, <2>3 DEF KillWrite, Inv, TypeOK
  <2>7. AppsExist'
    BY <1>10, <2>2, <2>4, <2>5 DEF KillWrite, Inv, AppsExist, Apps
  <2>8. KillsAreReal'
    BY <1>10, <2>2, <2>5 DEF KillWrite, Inv, KillsAreReal
  <2> QED
    BY <2>6, <2>7, <2>8 DEF Inv
<1>11. CASE UNCHANGED vars
  BY <1>11 DEF vars, Inv, TypeOK, AppsExist, KillsAreReal, Apps
<1> QED
  BY <1>1, <1>2, <1>3, <1>4, <1>5, <1>6, <1>7, <1>8, <1>9, <1>10, <1>11 DEF Next

\* The invariant holds of every run, so the next two theorems read off it.
LEMMA InvAlways == Spec => []Inv
<1>1. Init => Inv
  BY InitInv
<1>2. Inv /\ [Next]_vars => Inv'
  BY NextInv
<1> QED
  BY <1>1, <1>2, PTL DEF Spec

\* Rows, drivers and calls keep their types, and YARN kills only what was
\* started.
THEOREM TypeCorrect == Spec => []TypeOK
<1>1. Inv => TypeOK
  BY DEF Inv
<1> QED
  BY <1>1, InvAlways, PTL

\* A row never says KILLED of an application that is still running: killProcess
\* may write over a row another execution or the driver has changed, and still
\* names the application it has killed.
THEOREM KilledRowsAreDead == Spec => []KilledIsDead
<1>1. Inv => KilledIsDead
  BY DEF Inv, KillsAreReal, KilledIsDead, Alive
<1> QED
  BY <1>1, InvAlways, PTL

-----------------------------------------------------------------------------
(***************************************************************************)
(* A process that is executed once.  There is one row at most, which the   *)
(* driver and every call of killProcess write.  It has no application      *)
(* before the driver is connected, so nobody can be about to kill it then; *)
(* afterwards only the driver's failure and killProcess write it.          *)
(***************************************************************************)
Fresh(row) == row = [state |-> "STARTED", app |-> NoApp]
Shown(row) == row.state \in {"RUNNING", "KILLED"} /\ row.app = 1

RowPerDriver == Len(rows) + inserts <= Len(drivers)
OneRun ==
  Len(drivers) = 1 =>
    /\ \A k \in Killers : kill[k].phase # "idle" =>
         kill[k].row = 1 /\ drivers[1].phase \notin {"launched", "connecting"}
    /\ drivers[1].phase = "launched" => \A i \in DOMAIN rows : Fresh(rows[i])
    /\ drivers[1].phase = "connecting" =>
         /\ Len(rows) = 1 /\ Fresh(rows[1])
         /\ drivers[1].row = 1 /\ drivers[1].app = 1
    /\ drivers[1].phase = "running" => Len(rows) = 1 /\ Shown(rows[1])
    /\ drivers[1].phase = "failing" => Len(rows) = 1 /\ drivers[1].row = 1
SingleInv == Inv /\ RowPerDriver /\ OneRun

LEMMA SingleInit == Init => SingleInv
<1> SUFFICES ASSUME Init PROVE SingleInv
  OBVIOUS
<1>1. Inv
  BY InitInv
<1>2. RowPerDriver /\ OneRun
  BY DEF Init, RowPerDriver, OneRun
<1> QED
  BY <1>1, <1>2 DEF SingleInv

\* What is known of the one driver and its row.
LEMMA SingleFacts ==
  ASSUME SingleInv, Len(drivers) = 1
  PROVE  /\ rows \in Seq(Row) /\ drivers \in Seq(Driver) /\ DOMAIN drivers = {1}
         /\ drivers[1] \in Driver /\ inserts \in Nat /\ Len(rows) + inserts <= 1
         /\ Len(rows) \in {0, 1} /\ (Len(rows) = 0 <=> rows = <<>>)
         /\ DOMAIN rows = 1 .. Len(rows)
         /\ \A i \in DOMAIN rows : i = 1 /\ rows[i] \in Row /\ rows[i].app \in {0, 1}
         /\ \A k \in Killers : /\ kill[k] \in Kill
                               /\ kill[k].phase # "idle" => kill[k].app = 1
<1>1. rows \in Seq(Row) /\ drivers \in Seq(Driver) /\ inserts \in Nat
  BY DEF SingleInv, Inv, TypeOK
<1>2. DOMAIN drivers = {1} /\ drivers[1] \in Driver
  <2>1. DOMAIN drivers = 1 .. 1
    BY <1>1
  <2>2. 1 .. 1 = {1}
    OBVIOUS
  <2>3. \A d \in DOMAIN drivers : drivers[d] \in Driver
    BY <1>1
  <2>4. DOMAIN drivers = {1}
    BY <2>1, <2>2
  <2> QED
    BY <2>3, <2>4
<1>3. Len(rows) \in Nat /\ Len(rows) + inserts <= 1 /\ DOMAIN rows = 1 .. Len(rows)
  BY <1>1 DEF SingleInv, RowPerDriver
<1>4. Len(rows) \in {0, 1} /\ \A i \in DOMAIN rows : i = 1
  BY <1>1, <1>3
<1>5. Len(rows) = 0 <=> rows = <<>>
  BY <1>1
<1>6. \A i \in DOMAIN rows : rows[i] \in Row /\ rows[i].app \in {0, 1}
  BY <1>1 DEF SingleInv, Inv, AppsExist, Apps
<1>7. \A k \in Killers : kill[k] \in Kill /\ (kill[k].phase # "idle" => kill[k].app = 1)
  <2>1. \A k \in Killers : kill[k] \in Kill
    BY DEF SingleInv, Inv, TypeOK
  <2>2. ASSUME NEW k \in Killers, kill[k].phase # "idle" PROVE kill[k].app = 1
    <3>1. kill[k].app \in 0 .. 1 /\ kill[k].app # 0
      BY <2>2 DEF SingleInv, Inv, AppsExist, Apps, NoApp
    <3> QED
      BY <3>1
  <2> QED
    BY <2>1, <2>2
<1> QED
  BY <1>1, <1>2, <1>3, <1>4, <1>5, <1>6, <1>7

\* Writing the only row (InstanceExecDAO.update).
LEMMA WriteOnlyRow ==
  ASSUME rows \in Seq(Row), Len(rows) = 1, NEW state, NEW app, Write(1, state, app)
  PROVE  rows' = <<[state |-> state, app |-> app]>>
  BY DEF Write

\* There is never more than a row for every driver.
LEMMA RowsStep == Inv /\ RowPerDriver /\ [Next]_vars => RowPerDriver'
<1> SUFFICES ASSUME Inv, RowPerDriver, [Next]_vars PROVE RowPerDriver'
  OBVIOUS
<1>0. rows \in Seq(Row) /\ drivers \in Seq(Driver) /\ inserts \in Nat
  BY DEF Inv, TypeOK
<1>1. \A row, state, app : Write(row, state, app) => Len(rows') = Len(rows)
  BY <1>0 DEF Write
<1>2. \A d, phase, row, app : SetDriver(d, phase, row, app) => Len(drivers') = Len(drivers)
  BY <1>0 DEF SetDriver
<1>3. CASE Execute
  BY <1>0, <1>3 DEF Execute, RowPerDriver
<1>4. CASE Insert
  <2>1. Len(rows') <= Len(rows) + 1 /\ Len(rows') \in Nat
    BY <1>0, <1>4 DEF Insert, Inserted, Row
  <2> QED
    BY <1>0, <1>4, <2>1 DEF Insert, RowPerDriver
<1>5. ASSUME NEW d \in DOMAIN drivers,
             Connect(d) \/ Connected(d) \/ Fail(d) \/ Failed(d) \/ Die(d)
      PROVE  RowPerDriver'
  <2>1. /\ Len(drivers') = Len(drivers)
        /\ Len(rows') = Len(rows) /\ inserts' = inserts
    BY <1>1, <1>2, <1>5 DEF Connect, Connected, Fail, Failed, Die, Stop
  <2> QED
    BY <2>1 DEF RowPerDriver
<1>6. ASSUME NEW k \in Killers, KillRead(k) \/ YarnKill(k) \/ KillWrite(k) PROVE RowPerDriver'
  <2>1. drivers' = drivers /\ Len(rows') = Len(rows) /\ inserts' = inserts
    BY <1>1, <1>6 DEF KillRead, YarnKill, KillWrite
  <2> QED
    BY <2>1 DEF RowPerDriver
<1>7. CASE UNCHANGED vars
  BY <1>7 DEF vars, RowPerDriver
<1> QED
  BY <1>3, <1>4, <1>5, <1>6, <1>7 DEF Next

\* The driver goes on, and writes nothing.
LEMMA OneRunDriver ==
  ASSUME SingleInv, Len(drivers) = 1, NEW phase, NEW row, NEW app,
         SetDriver(1, phase, row, app)
  PROVE  /\ Len(drivers') = 1
         /\ drivers'[1] = [phase |-> phase, row |-> row, app |-> app]
  BY SingleFacts DEF SetDriver

LEMMA OneRunStep == SingleInv /\ [Next]_vars => OneRun'
<1> SUFFICES ASSUME SingleInv, [Next]_vars, Len(drivers') = 1 PROVE OneRun'
  BY DEF OneRun
<1> USE DEF NoApp, NoRow
<1>0. /\ rows \in Seq(Row) /\ drivers \in Seq(Driver) /\ inserts \in Nat
      /\ Len(drivers) \in Nat /\ Inv
  BY DEF SingleInv, Inv, TypeOK
<1>1. CASE Execute
  <2>1. /\ drivers' = Append(drivers, [phase |-> "launched", row |-> NoRow, app |-> NoApp])
        /\ UNCHANGED <<rows, kill>>
    BY <1>1 DEF Execute
  <2>2. Len(drivers) = 0
    BY <1>0, <2>1
  <2>3. drivers'[1].phase = "launched"
    BY <1>0, <2>1, <2>2
  <2>4. rows = <<>>
    BY <1>0, <2>2 DEF SingleInv, RowPerDriver
  <2>5. \A k \in Killers : kill[k].phase = "idle"
    BY <2>2 DEF SingleInv, Inv, AppsExist, Apps
  <2> QED
    BY <2>1, <2>3, <2>4, <2>5 DEF OneRun
<1>2. CASE ~Execute /\ Len(drivers) # 1
  <2>1. Len(drivers') = Len(drivers)
    BY <1>0, <1>2 DEF Next, vars, Insert, Connect, Connected, Fail, Failed, Die, Stop, SetDriver,
       KillRead, YarnKill, KillWrite
  <2> QED
    BY <1>2, <2>1
<1>3. CASE Len(drivers) = 1
  <2>0. OneRun
    BY DEF SingleInv
  <2>1. CASE Insert
    <3>1. UNCHANGED <<drivers, kill>> /\ (UNCHANGED rows \/ Inserted) /\ inserts > 0
      BY <2>1 DEF Insert
    <3>2. CASE UNCHANGED rows
      BY <2>0, <3>1, <3>2 DEF OneRun
    <3>3. CASE Inserted
      <4>1. rows = <<>>
        BY <1>0, <1>3, <3>1, SingleFacts
      <4>2. rows' = <<[state |-> "STARTED", app |-> NoApp]>>
        BY <3>3, <4>1 DEF Inserted
      <4>3. \A i \in DOMAIN rows' : Fresh(rows'[i])
        BY <4>2 DEF Fresh
      <4>4. drivers[1].phase \notin {"connecting", "running", "failing"}
        BY <1>3, <2>0, <4>1, SingleFacts DEF OneRun
      <4> QED
        BY <1>3, <2>0, <3>1, <4>3, <4>4 DEF OneRun
    <3> QED
      BY <3>1, <3>2, <3>3
  <2>2. ASSUME NEW d \in DOMAIN drivers,
               Connect(d) \/ Connected(d) \/ Fail(d) \/ Failed(d) \/ Die(d)
        PROVE  OneRun'
    <3>0. d = 1 /\ kill' = kill
      BY <1>3, <2>2, SingleFacts DEF Connect, Connected, Fail, Failed, Die
    <3>1. CASE Connect(1)
      <4>1. CASE rows = <<>>
        BY <1>3, <2>0, <3>0, <3>1, <4>1, OneRunDriver DEF Connect, Stop, OneRun
      <4>2. CASE rows # <<>>
        <5>1. /\ drivers[1].phase = "launched" /\ UNCHANGED rows
              /\ SetDriver(1, "connecting", Latest, 1)
          BY <3>1, <4>2 DEF Connect
        <5>2. Len(rows) = 1 /\ 1 \in DOMAIN rows
          BY <1>3, <4>2, SingleFacts
        <5>3. drivers'[1] = [phase |-> "connecting", row |-> 1, app |-> 1]
          BY <1>3, <5>1, <5>2, OneRunDriver DEF Latest
        <5> QED
          BY <1>3, <2>0, <3>0, <5>1, <5>2, <5>3 DEF OneRun
      <4> QED
        BY <4>1, <4>2
    <3>2. CASE Connected(1)
      <4>1. /\ drivers[1].phase = "connecting"
            /\ Write(drivers[1].row, "RUNNING", drivers[1].app)
            /\ SetDriver(1, "running", NoRow, NoApp)
        BY <3>2 DEF Connected
      <4>2. Len(rows) = 1 /\ drivers[1].row = 1 /\ drivers[1].app = 1
            /\ \A k \in Killers : kill[k].phase = "idle"
        BY <1>3, <2>0, <4>1 DEF OneRun
      <4>3. rows' = <<[state |-> "RUNNING", app |-> 1]>>
        BY <1>0, <4>1, <4>2, WriteOnlyRow
      <4>4. drivers'[1] = [phase |-> "running", row |-> NoRow, app |-> NoApp]
        BY <1>3, <4>1, OneRunDriver
      <4> QED
        BY <3>0, <4>2, <4>3, <4>4 DEF OneRun, Shown
    <3>3. CASE Fail(1)
      <4>1. CASE rows = <<>>
        BY <1>3, <2>0, <3>0, <3>3, <4>1, OneRunDriver DEF Fail, Stop, OneRun
      <4>2. CASE rows # <<>>
        <5>1. UNCHANGED rows /\ SetDriver(1, "failing", Latest, rows[Latest].app)
          BY <3>3, <4>2 DEF Fail
        <5>2. Len(rows) = 1
          BY <1>3, <4>2, SingleFacts
        <5>3. drivers'[1].phase = "failing" /\ drivers'[1].row = 1
          BY <1>3, <5>1, <5>2, OneRunDriver DEF Latest
        <5> QED
          BY <1>3, <2>0, <3>0, <5>1, <5>2, <5>3 DEF OneRun
      <4> QED
        BY <4>1, <4>2
    <3>4. CASE Failed(1) \/ Die(1)
      <4>1. drivers'[1].phase = "dead"
        BY <1>3, <3>4, OneRunDriver DEF Failed, Die, Stop
      <4> QED
        BY <1>3, <2>0, <3>0, <4>1 DEF OneRun
    <3> QED
      BY <2>2, <3>0, <3>1, <3>2, <3>3, <3>4
  <2>3. ASSUME NEW k \in Killers, KillRead(k) PROVE OneRun'
    <3>1. /\ rows # <<>> /\ rows[Latest].app # NoApp /\ UNCHANGED <<rows, drivers>>
          /\ kill' = [kill EXCEPT ![k] = [phase |-> "yarn", row |-> Latest, app |-> rows[Latest].app]]
      BY <2>3 DEF KillRead
    <3>2. Latest = 1 /\ 1 \in DOMAIN rows
      BY <1>3, <3>1, SingleFacts DEF Latest
    <3>3. drivers[1].phase \notin {"launched", "connecting"}
      BY <1>3, <2>0, <3>1, <3>2 DEF OneRun, Fresh
    <3>4. \A j \in Killers : kill'[j].phase # "idle" => kill'[j].row = 1
      BY <1>0, <1>3, <2>0, <3>1, <3>2 DEF OneRun, Inv, TypeOK
    <3> QED
      BY <1>3, <2>0, <3>1, <3>3, <3>4 DEF OneRun
  <2>4. ASSUME NEW k \in Killers, YarnKill(k) PROVE OneRun'
    <3>1. UNCHANGED <<rows, drivers>> /\ kill[k].phase # "idle"
          /\ \E p \in {"idle", "write"} : kill' = [kill EXCEPT ![k].phase = p]
      BY <2>4 DEF YarnKill
    <3>2. \A j \in Killers : kill'[j].phase # "idle" => kill[j].phase # "idle" /\ kill'[j].row = kill[j].row
      BY <1>0, <3>1 DEF Inv, TypeOK, Kill
    <3> QED
      BY <1>3, <2>0, <3>1, <3>2 DEF OneRun
  <2>5. ASSUME NEW k \in Killers, KillWrite(k) PROVE OneRun'
    <3>1. /\ UNCHANGED drivers /\ kill[k].phase = "write"
          /\ Write(kill[k].row, "KILLED", kill[k].app)
          /\ kill' = [kill EXCEPT ![k].phase = "idle"]
      BY <2>5 DEF KillWrite
    <3>2. \A j \in Killers : kill'[j].phase # "idle" => kill[j].phase # "idle" /\ kill'[j].row = kill[j].row
      BY <1>0, <3>1 DEF Inv, TypeOK, Kill
    <3>3. /\ kill[k].row = 1 /\ kill[k].app = 1
          /\ drivers[1].phase \notin {"launched", "connecting"}
      BY <1>3, <2>0, <3>1, SingleFacts DEF OneRun
    <3>4. Len(rows') = Len(rows)
      BY <1>0, <3>1 DEF Write
    <3>5. Len(rows) = 1 => rows' = <<[state |-> "KILLED", app |-> 1]>>
      BY <1>0, <3>1, <3>3, WriteOnlyRow
    <3>6. Len(rows) = 1 => Shown(rows'[1])
      BY <3>5 DEF Shown
    <3> QED
      BY <1>3, <2>0, <3>1, <3>2, <3>3, <3>4, <3>6 DEF OneRun
  <2>6. CASE UNCHANGED vars
    BY <2>0, <2>6 DEF vars, OneRun
  <2> QED
    BY <1>3, <2>1, <2>2, <2>3, <2>4, <2>5, <2>6, <1>1 DEF Next
<1> QED
  BY <1>1, <1>2, <1>3

LEMMA SingleAlways == Spec => []SingleInv
<1>1. SingleInv /\ [Next]_vars => SingleInv'
  BY NextInv, RowsStep, OneRunStep DEF SingleInv
<1> QED
  BY <1>1, SingleInit, PTL DEF Spec

\* The application of a process that was executed once can be killed as long as it
\* runs: its row names it, although the row is inserted while the driver starts.
THEOREM RunningCanBeKilled == Spec => []CanBeKilled
<1>1. SingleInv => CanBeKilled
  <2> SUFFICES ASSUME SingleInv, Len(drivers) = 1, drivers[1].phase = "running", Alive(1)
               PROVE  rows = <<[state |-> "RUNNING", app |-> 1]>>
    BY DEF CanBeKilled
  <2>1. Len(rows) = 1 /\ Shown(rows[1])
    BY DEF SingleInv, OneRun
  <2>2. rows \in Seq(Row) /\ rows[1] \in Row
    BY <2>1, SingleFacts
  <2>3. rows[1].state # "KILLED"
    BY <2>1, SingleFacts DEF SingleInv, Inv, KillsAreReal, Alive, Shown
  <2>4. rows[1] = [state |-> "RUNNING", app |-> 1]
    BY <2>1, <2>2, <2>3 DEF Shown, Row
  <2> QED
    BY <2>1, <2>2, <2>4
<1> QED
  BY <1>1, SingleAlways, PTL

\* A row of a process that was executed once never comes back from KILLED or FAILED,
\* whichever of the driver and the calls of killProcess writes last.
THEOREM RunsOverStayOver == Spec => OverForGood
<1>1. SingleInv /\ [Next]_vars =>
        [\A i \in DOMAIN rows : Len(drivers) = 1 /\ Over(rows[i]) => Over(rows'[i])]_vars
  <2> SUFFICES ASSUME SingleInv, [Next]_vars, Len(drivers) = 1,
                      NEW i \in DOMAIN rows, Over(rows[i])
               PROVE  Over(rows'[i])
    OBVIOUS
  <2>0. /\ rows \in Seq(Row) /\ DOMAIN drivers = {1} /\ OneRun
        /\ i = 1 /\ DOMAIN rows = 1 .. Len(rows) /\ Len(rows) = 1
    BY SingleFacts DEF SingleInv
  <2>1. CASE UNCHANGED rows
    BY <2>1
  <2>2. CASE Insert
    <3>1. rows' = rows \/ rows' = Append(rows, [state |-> "STARTED", app |-> NoApp])
      BY <2>2 DEF Insert, Inserted
    <3> QED
      BY <2>0, <3>1 DEF Over
  <2>3. CASE Connected(1)
    BY <2>0, <2>3 DEF Connected, OneRun, Over, Fresh
  <2>4. CASE Failed(1)
    <3>1. rows' = <<[state |-> "FAILED", app |-> drivers[1].app]>>
      BY <2>0, <2>4, WriteOnlyRow DEF Failed, OneRun
    <3> QED
      BY <2>0, <3>1 DEF Over
  <2>5. ASSUME NEW k \in Killers, KillWrite(k) PROVE Over(rows'[i])
    <3>1. rows' = <<[state |-> "KILLED", app |-> kill[k].app]>>
      BY <2>0, <2>5, WriteOnlyRow DEF KillWrite, OneRun
    <3> QED
      BY <2>0, <3>1 DEF Over
  <2> QED
    BY <2>0, <2>1, <2>2, <2>3, <2>4, <2>5
    DEF Next, vars, Execute, Connect, Fail, Die, KillRead, YarnKill
<1> QED
  BY <1>1, SingleAlways, PTL DEF Spec, OverForGood
=============================================================================
