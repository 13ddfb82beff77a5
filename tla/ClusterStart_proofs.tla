------------------------- MODULE ClusterStart_proofs -------------------------
(***************************************************************************)
(* For any list of tables, any bounds and any choice of services:          *)
(* ClusterStart is type correct, and the clients of HBase start on the     *)
(* whole schema but for the tables whose creation HBase refused.           *)
(***************************************************************************)
EXTENDS ClusterStart, TLAPS

USE DEF diskVars, hbaseVars, Up, Goto

\* What the containers are called; those of the services are no clients.
LEMMA ContainerNames ==
    /\ {"namenode", "datanode", "zookeeper", "hbase-master",
        "hbase-regionserver", "mysql-server", "umanager"} \subseteq Containers
    /\ "hbase-regionserver" \in Pollers
    /\ "hbase-regionserver" \notin Clients
    /\ Clients \subseteq Containers
    /\ Clients \subseteq Pollers
    /\ Pollers \subseteq Containers
BY ClientsAssumption DEF Containers, Pollers

\* The first stage of a container is a stage.
LEMMA FirstStageType ==
    \A c \in Containers : FirstStage(c) \in {"wait", "look", "up", "poll"}
BY DEF FirstStage, Preconditions

\* No client starts among the stages that come after the wait for the table.
LEMMA FirstStageOfClient ==
    \A c \in Clients : FirstStage(c) = "poll"
BY ClientsAssumption DEF FirstStage, Preconditions

\* Initially the types are right, and nothing is in the making.
LEMMA InitType == Init => TypeOK /\ MakingInvariant
<1> SUFFICES ASSUME Init PROVE TypeOK /\ MakingInvariant
    OBVIOUS
<1> USE StepsAssumption, TablesAssumption DEF Init
<1>1. pc \in [Containers -> {"absent", "down"}]
      OBVIOUS
<1>2. ready \in [Pollers -> 0 .. ReadyNeeded - 1]
      OBVIOUS
<1>3. /\ next \in 1 .. Len(Tables)
      /\ named \in 0 .. FormatSteps /\ db \in 0 .. DbSteps /\ keys \in 0 .. KeySteps
      /\ faults \in 0 .. MaxFaults
      OBVIOUS
<1>4. TypeOK
      BY <1>1, <1>2, <1>3, Zenon DEF TypeOK
<1>5. MakingInvariant
      BY <1>1, ContainerNames DEF MakingInvariant
<1>6. QED BY <1>4, <1>5

\* Every step keeps both: a step of the making is only taken when one is left.
LEMMA NextType ==
    TypeOK /\ MakingInvariant /\ [Next]_vars => (TypeOK /\ MakingInvariant)'
<1> DEFINE I == TypeOK /\ MakingInvariant
<1> SUFFICES ASSUME I, [Next]_vars
             PROVE  I'
    OBVIOUS
<1> USE StepsAssumption, TablesAssumption, ContainerNames
    DEF TypeOK, MakingInvariant
<1>1. CASE UNCHANGED vars
      BY <1>1 DEF vars
<1>2. ASSUME NEW c \in Containers, ContainerStep(c) PROVE I'
      BY <1>2, FirstStageType DEF ContainerStep, Start, PassPreconditions
<1>3. CASE Initialise
  <2>1. CASE LookAtName
        BY <2>1 DEF LookAtName
  <2>2. CASE FormatStep
        BY <2>2 DEF FormatStep
  <2>3. CASE Serve
        BY <2>3 DEF Serve
  <2>4. CASE LookAtDb
        BY <2>4 DEF LookAtDb
  <2>5. CASE DbStep
        BY <2>5 DEF DbStep
  <2>6. CASE FindMySQL
        BY <2>6 DEF FindMySQL
  <2>7. CASE KeyStep
        BY <2>7 DEF KeyStep
  <2>8. QED BY <1>3, <2>1, <2>2, <2>3, <2>4, <2>5, <2>6, <2>7 DEF Initialise
<1>4. CASE ScriptStep
  <2>1. ASSUME NEW c \in Pollers, PollMaster(c) PROVE I'
        BY <2>1 DEF PollMaster
  <2>2. CASE ListTables
        BY <2>2 DEF ListTables
  <2>3. CASE CreateTable
        BY <2>3 DEF CreateTable, NextCreate, TableSet
  <2>4. CASE CreateFails
    <3>1. next \in DOMAIN Tables
          BY <2>4
    <3>2. Tables[next] \in TableSet
          BY <3>1 DEF TableSet
    <3>3. skipped' \in SUBSET TableSet
          BY <2>4, <3>2 DEF CreateFails
    <3>4. next' \in 1 .. Len(Tables) /\ faults' \in 0 .. MaxFaults
          BY <2>4 DEF CreateFails, NextCreate
    <3>5. pc' \in [Containers -> {"down", "up"} \cup {pc[c] : c \in Containers}]
          BY <2>4 DEF CreateFails, NextCreate
    <3>6. QED BY <2>4, <3>3, <3>4, <3>5 DEF CreateFails, NextCreate
  <2>5. CASE ForegroundEnds
        BY <2>5 DEF ForegroundEnds
  <2>6. ASSUME NEW c \in Clients, FindTable(c) PROVE I'
        BY <2>6 DEF FindTable
  <2>7. CASE CheckTsdb
        BY <2>7 DEF CheckTsdb
  <2>8. QED BY <1>4, <2>1, <2>2, <2>3, <2>4, <2>5, <2>6, <2>7 DEF ScriptStep
<1>5. CASE Hbase
      BY <1>5 DEF Hbase, Register, Settle
<1>6. CASE Trouble
  <2>1. ASSUME NEW c \in Containers, PreconditionFails(c) PROVE I'
        BY <2>1 DEF PreconditionFails
  <2>2. CASE DaemonAborts
        BY <2>2 DEF DaemonAborts
  <2>3. CASE MasterAborts
        BY <2>3 DEF MasterAborts
  <2>4. CASE DbStepFails
        BY <2>4 DEF DbStepFails
  <2>5. CASE KeyStepFails
        BY <2>5 DEF KeyStepFails
  <2>6. CASE ListFails
        BY <2>6 DEF ListFails
  <2>7. CASE Crash
    <3>1. PICK cs \in SUBSET Containers : Lost(cs)
          BY <2>7 DEF Crash
    <3>2. faults' \in 0 .. MaxFaults /\ UNCHANGED <<diskVars, skipped>>
          BY <2>7 DEF Crash
    <3>3. ready' \in [Pollers -> 0 .. ReadyNeeded - 1]
          BY <3>1 DEF Lost
    <3>4. /\ pc' = [c \in Containers |-> IF c \in cs THEN "down" ELSE pc[c]]
          /\ pc' \in [Containers -> {"down"} \cup {pc[c] : c \in Containers}]
          BY <3>1 DEF Lost
    <3>5. MakingInvariant'
          BY <3>2, <3>4
    <3>6. QED BY <3>1, <3>2, <3>3, <3>4, <3>5 DEF Lost
  <2>8. CASE DaemonDies
        BY <2>8 DEF DaemonDies
  <2>9. QED BY <1>6, <2>1, <2>2, <2>3, <2>4, <2>5, <2>6, <2>7, <2>8 DEF Trouble
<1>7. QED BY <1>1, <1>2, <1>3, <1>4, <1>5, <1>6 DEF Next

\* From the start, with every step.
LEMMA MakingTypeCorrect == Spec => [](TypeOK /\ MakingInvariant)
BY InitType, NextType, PTL DEF Spec

\* ClusterStart is type correct: a script is at one of its stages, what is
\* made in steps never exceeds them, and only tables of the list are made.
THEOREM TypeCorrect == Spec => []TypeOK
BY MakingTypeCorrect, PTL

-----------------------------------------------------------------------------
\* A step that leaves the tables, the shell and the clients alone keeps the
\* invariant; a client may fall back, and the shell may end.
LEMMA SchemaUntouched ==
    ASSUME SchemaInvariant,
           UNCHANGED <<tables, skipped, next>>,
           pc'["hbase-regionserver"] = "create"
               => pc["hbase-regionserver"] = "create",
           \A c \in Clients : pc'[c] \in {"exists", "up"}
                               => pc[c] \in {"exists", "up"}
    PROVE  SchemaInvariant'
BY DEF SchemaInvariant, LastTable, TableSet

\* A table is dealt with: it exists now, or its creation was refused.
LEMMA SchemaTried ==
    ASSUME TypeOK, SchemaInvariant,
           pc["hbase-regionserver"] = "create",
           NextCreate,
           tables \subseteq tables', skipped \subseteq skipped',
           tables' \subseteq tables \cup {Tables[next]},
           Tables[next] \in tables' \cup skipped'
    PROVE  SchemaInvariant'
<1> USE TablesAssumption, ContainerNames DEF TypeOK
<1>1. next \in 1 .. Len(Tables) /\ Len(Tables) \in Nat
      OBVIOUS
<1>2. \A i \in 1 .. next : Tables[i] \in tables' \cup skipped'
      BY <1>1 DEF SchemaInvariant
<1>3. pc'["hbase-regionserver"] = "create"
      => \A i \in 1 .. next' - 1 : Tables[i] \in tables' \cup skipped'
      BY <1>1, <1>2 DEF NextCreate
<1>4. LastTable \in tables' => TableSet \subseteq tables' \cup skipped'
  <2>1. CASE LastTable \in tables
        BY <2>1 DEF SchemaInvariant
  <2>2. CASE LastTable = Tables[next]
    <3>1. next = Len(Tables)
      <4>1. Len(Tables) \in 1 .. Len(Tables) /\ Tables[Len(Tables)] = Tables[next]
            BY <1>1, <2>2, TablesAssumption DEF LastTable
      <4>2. \A i, j \in 1 .. Len(Tables) : Tables[i] = Tables[j] => i = j
            BY TablesAssumption
      <4>3. QED BY <1>1, <4>1, <4>2, Zenon
    <3>2. TableSet = {Tables[i] : i \in 1 .. next}
          BY <3>1 DEF TableSet
    <3>3. QED BY <1>2, <3>2
  <2>3. QED BY <2>1, <2>2
<1>5. ASSUME NEW c \in Clients, pc'[c] \in {"exists", "up"}
      PROVE  LastTable \in tables'
      BY <1>5 DEF SchemaInvariant, NextCreate
<1>6. QED
  <2>1. LastTable' = LastTable /\ TableSet' = TableSet
        BY DEF LastTable, TableSet
  <2>2. QED BY <1>3, <1>4, <1>5, <2>1 DEF SchemaInvariant

\* Nothing exists at the start, and no client runs.
LEMMA SchemaInit == Init => SchemaInvariant
<1> SUFFICES ASSUME Init PROVE SchemaInvariant
    OBVIOUS
<1>1. pc \in [Containers -> {"absent", "down"}] /\ tables = {}
      BY DEF Init
<1>2. QED BY <1>1, ContainerNames DEF SchemaInvariant

\* Every step keeps it.
LEMMA SchemaNext ==
    TypeOK /\ SchemaInvariant /\ [Next]_vars => SchemaInvariant'
<1> SUFFICES ASSUME TypeOK, SchemaInvariant, [Next]_vars
             PROVE  SchemaInvariant'
    OBVIOUS
<1>0. DOMAIN pc = Containers /\ pc = [c \in Containers |-> pc[c]]
      BY DEF TypeOK
<1> USE ContainerNames, SchemaUntouched
<1>1. CASE UNCHANGED vars
      BY <1>1 DEF vars
<1>2. ASSUME NEW c \in Containers, ContainerStep(c) PROVE SchemaInvariant'
  <2>1. CASE Start(c)
        BY <1>0, <2>1, FirstStageType, FirstStageOfClient DEF Start
  <2>2. CASE PassPreconditions(c)
    <3>1. c \notin Clients
          BY <2>2, ClientsAssumption DEF PassPreconditions, Preconditions
    <3>2. QED BY <1>0, <2>2, <3>1 DEF PassPreconditions
  <2>3. QED BY <1>2, <2>1, <2>2 DEF ContainerStep
<1>3. CASE Initialise
  <2>1. \A c \in Clients \cup {"hbase-regionserver"} : pc'[c] = pc[c]
        BY <1>0, <1>3, ClientsAssumption
        DEF Initialise, LookAtName, FormatStep, Serve, LookAtDb, DbStep,
            FindMySQL, KeyStep
  <2>2. UNCHANGED <<tables, skipped, next>>
        BY <1>3 DEF Initialise, LookAtName, FormatStep, Serve, LookAtDb, DbStep,
                    FindMySQL, KeyStep
  <2>3. QED BY <2>1, <2>2
<1>4. CASE ScriptStep
  <2>1. ASSUME NEW c \in Pollers, PollMaster(c) PROVE SchemaInvariant'
        BY <1>0, <2>1 DEF PollMaster
  <2>2. CASE ListTables
    <3>1. next' = 1 /\ UNCHANGED <<tables, skipped>>
          BY <2>2 DEF ListTables
    <3>2. \A c \in Clients : pc'[c] = pc[c]
          BY <1>0, <2>2 DEF ListTables
    <3>3. QED BY <3>1, <3>2 DEF SchemaInvariant, LastTable, TableSet
  <2>3. CASE CreateTable
        BY <2>3, SchemaTried DEF CreateTable
  <2>4. CASE CreateFails
        BY <2>4, SchemaTried DEF CreateFails
  <2>5. CASE ForegroundEnds
        BY <1>0, <2>5 DEF ForegroundEnds
  <2>6. ASSUME NEW c \in Clients, FindTable(c) PROVE SchemaInvariant'
    <3>1. LastTable \in tables /\ UNCHANGED <<tables, skipped, next>>
          BY <2>6 DEF FindTable, AwaitedTable
    <3>2. pc'["hbase-regionserver"] = pc["hbase-regionserver"]
          BY <1>0, <2>6 DEF FindTable
    <3>3. QED BY <3>1, <3>2 DEF SchemaInvariant, LastTable, TableSet
  <2>7. CASE CheckTsdb
    <3>1. UNCHANGED <<tables, skipped, next>>
          BY <2>7 DEF CheckTsdb
    <3>2. PICK c \in Clients :
             /\ pc[c] = "exists"
             /\ \E stage \in {"down", "up"} : pc' = [pc EXCEPT ![c] = stage]
          BY <2>7 DEF CheckTsdb
    <3>3. QED BY <1>0, <3>1, <3>2
  <2>8. QED BY <1>4, <2>1, <2>2, <2>3, <2>4, <2>5, <2>6, <2>7 DEF ScriptStep
<1>5. CASE Hbase
      BY <1>5 DEF Hbase, Register, Settle
<1>6. CASE Trouble
  <2>1. ASSUME NEW c \in Containers, PreconditionFails(c) PROVE SchemaInvariant'
        BY <1>0, <2>1 DEF PreconditionFails
  <2>2. CASE DaemonAborts
        BY <2>2 DEF DaemonAborts
  <2>3. CASE MasterAborts
        BY <1>0, <2>3 DEF MasterAborts
  <2>4. CASE DbStepFails
        BY <1>0, <2>4 DEF DbStepFails
  <2>5. CASE KeyStepFails
    <3>1. "umanager" \notin Clients
          BY ClientsAssumption
    <3>2. QED BY <1>0, <2>5, <3>1 DEF KeyStepFails
  <2>6. CASE ListFails
    <3>1. next' = 1 /\ UNCHANGED <<tables, skipped>>
          BY <2>6 DEF ListFails
    <3>2. \A c \in Clients : pc'[c] = pc[c]
          BY <1>0, <2>6 DEF ListFails
    <3>3. QED BY <3>1, <3>2 DEF SchemaInvariant, LastTable, TableSet
  <2>7. CASE Crash
    <3>1. PICK cs \in SUBSET Containers : Lost(cs)
          BY <2>7 DEF Crash
    <3>2. UNCHANGED <<tables, skipped>>
          BY <2>7 DEF Crash
    <3>3. /\ \A c \in Containers : pc'[c] = IF c \in cs THEN "down" ELSE pc[c]
          /\ next' = IF "hbase-regionserver" \in cs THEN 1 ELSE next
          BY <3>1 DEF Lost
    <3>4. QED BY <3>2, <3>3 DEF SchemaInvariant, LastTable, TableSet
  <2>8. CASE DaemonDies
        BY <2>8 DEF DaemonDies
  <2>9. QED BY <1>6, <2>1, <2>2, <2>3, <2>4, <2>5, <2>6, <2>7, <2>8 DEF Trouble
<1>7. QED BY <1>1, <1>2, <1>3, <1>4, <1>5, <1>6 DEF Next

\* However often containers crash and restart, a client of HBase runs only when
\* create_table.sh has made every table or HBase has refused it.
THEOREM WholeSchema == Spec => []StartedOnWholeSchema
<1>1. SchemaInvariant => StartedOnWholeSchema
      BY DEF SchemaInvariant, StartedOnWholeSchema
<1>2. Spec => []SchemaInvariant
      BY SchemaInit, SchemaNext, TypeCorrect, PTL DEF Spec
<1>3. QED BY <1>1, <1>2, PTL

-----------------------------------------------------------------------------
(* What is left half made stays so.                                        *)

\* Only a whole name directory serves, and only a data directory with its mark.
ServingInvariant ==
    /\ Up("namenode") => named = FormatSteps
    /\ Up("mysql-server") => db >= DbMark

\* Tables with the first one and without the last one, which the next run of
\* create_table.sh takes for all of them.
HalfTables ==
    /\ faults = MaxFaults
    /\ FirstTable \in tables
    /\ LastTable \notin tables
    /\ pc["hbase-regionserver"] # "create"

HalfName == named \in 1 .. FormatSteps - 1 /\ pc["namenode"] # "make"

\* A data directory that mysqld refuses.
RefusedDb == BareDb /\ pc["mysql-server"] # "make"

HalfDb == db \in 1 .. DbSteps - 1 /\ pc["mysql-server"] # "make"

HalfKeys == keys \in 1 .. KeySteps - 1 /\ pc["umanager"] # "make"

\* Every step keeps each of these.
LEMMA HalvesStay ==
    ASSUME TypeOK, [Next]_vars
    PROVE  /\ ServingInvariant => ServingInvariant'
           /\ ServingInvariant /\ HalfName => HalfName'
           /\ RefusedDb => RefusedDb'
           /\ HalfDb => HalfDb'
           /\ HalfKeys => HalfKeys'
           /\ HalfTables => HalfTables'
<1> DEFINE S == ServingInvariant => ServingInvariant'
           N == ServingInvariant /\ HalfName => HalfName'
           B == RefusedDb => RefusedDb'
           D == HalfDb => HalfDb'
           K == HalfKeys => HalfKeys'
           T == HalfTables => HalfTables'
           Stay == S /\ N /\ B /\ D /\ K /\ T
<1> SUFFICES Stay
    OBVIOUS
<1> USE StepsAssumption, ContainerNames, ClientsAssumption
    DEF TypeOK, ServingInvariant, HalfName, HalfDb, RefusedDb, BareDb, HalfKeys,
        HalfTables, FirstTable, LastTable
<1>0. \A c \in Clients \cup Pollers : c \notin {"namenode", "mysql-server", "umanager"}
      BY DEF Pollers
<1>1. CASE UNCHANGED vars
      BY <1>1 DEF vars
<1>2. ASSUME NEW c \in Containers, ContainerStep(c) PROVE Stay
  <2>1. CASE Start(c)
        BY <2>1, FirstStageType DEF Start, FirstStage
  <2>2. CASE PassPreconditions(c)
        BY <2>2 DEF PassPreconditions, Preconditions
  <2>3. QED BY <1>2, <2>1, <2>2 DEF ContainerStep
<1>3. CASE Initialise
  <2>1. CASE LookAtName
        BY <2>1 DEF LookAtName
  <2>2. CASE FormatStep
        BY <2>2 DEF FormatStep
  <2>3. CASE Serve
        BY <2>3 DEF Serve
  <2>4. CASE LookAtDb
        BY <2>4 DEF LookAtDb
  <2>5. CASE DbStep
        BY <2>5 DEF DbStep
  <2>6. CASE FindMySQL
        BY <2>6 DEF FindMySQL
  <2>7. CASE KeyStep
        BY <2>7 DEF KeyStep
  <2>8. QED BY <1>3, <2>1, <2>2, <2>3, <2>4, <2>5, <2>6, <2>7 DEF Initialise
<1>4. CASE ScriptStep
  <2>1. ASSUME NEW c \in Pollers, PollMaster(c) PROVE Stay
        BY <1>0, <2>1 DEF PollMaster
  <2>2. CASE ListTables
        BY <2>2 DEF ListTables, Mark
  <2>3. CASE CreateTable
        BY <2>3 DEF CreateTable, NextCreate
  <2>4. CASE CreateFails
        BY <2>4 DEF CreateFails, NextCreate
  <2>5. CASE ForegroundEnds
        BY <2>5 DEF ForegroundEnds
  <2>6. ASSUME NEW c \in Clients, FindTable(c) PROVE Stay
        BY <1>0, <2>6 DEF FindTable
  <2>7. CASE CheckTsdb
        BY <1>0, <2>7 DEF CheckTsdb
  <2>8. QED BY <1>4, <2>1, <2>2, <2>3, <2>4, <2>5, <2>6, <2>7 DEF ScriptStep
<1>5. CASE Hbase
      BY <1>5 DEF Hbase, Register, Settle
<1>6. CASE Trouble
  <2>1. ASSUME NEW c \in Containers, PreconditionFails(c) PROVE Stay
        BY <2>1 DEF PreconditionFails, Preconditions
  <2>2. CASE DaemonAborts
        BY <2>2 DEF DaemonAborts
  <2>3. CASE MasterAborts
        BY <2>3 DEF MasterAborts
  <2>4. CASE DbStepFails
        BY <2>4 DEF DbStepFails
  <2>5. CASE KeyStepFails
        BY <2>5 DEF KeyStepFails
  <2>6. CASE ListFails
        BY <2>6 DEF ListFails
  <2>7. CASE Crash
    <3>1. PICK cs \in SUBSET Containers : Lost(cs)
          BY <2>7 DEF Crash
    <3>2. faults # MaxFaults /\ UNCHANGED diskVars
          BY <2>7 DEF Crash
    <3>3. \A c \in Containers : pc'[c] \in {"down", pc[c]}
          BY <3>1 DEF Lost
    <3>4. QED BY <3>2, <3>3
  <2>8. CASE DaemonDies
        BY <2>8 DEF DaemonDies
  <2>9. QED BY <1>6, <2>1, <2>2, <2>3, <2>4, <2>5, <2>6, <2>7, <2>8 DEF Trouble
<1>7. QED BY <1>1, <1>2, <1>3, <1>4, <1>5, <1>6 DEF Next

\* Whatever crashes and restarts follow: tables left half made with the first one
\* there, a half formatted name directory, a data directory with its mark or
\* without it, and half a key stay as they are (create_table.sh, run.sh of the namenode, entrypoint.sh of
\* mysql, start.sh of the umanager).
THEOREM HalfMadeForGood == Spec => InterruptedForGood
<1>1. Spec => []ServingInvariant
  <2>1. Init => ServingInvariant
        BY ContainerNames DEF Init, ServingInvariant
  <2>2. TypeOK /\ ServingInvariant /\ [Next]_vars => ServingInvariant'
        BY HalvesStay
  <2>3. QED BY <2>1, <2>2, TypeCorrect, PTL DEF Spec
<1>2. Spec => /\ [](HalfTables => []HalfTables)
              /\ [](HalfName => []HalfName)
              /\ [](RefusedDb => []RefusedDb)
              /\ [](HalfDb => []HalfDb)
              /\ [](HalfKeys => []HalfKeys)
  <2>1. TypeOK /\ ServingInvariant /\ [Next]_vars
        => /\ HalfTables => HalfTables'
           /\ HalfName => HalfName'
           /\ RefusedDb => RefusedDb'
           /\ HalfDb => HalfDb'
           /\ HalfKeys => HalfKeys'
        BY HalvesStay
  <2>2. QED BY <1>1, <2>1, TypeCorrect, PTL DEF Spec
<1>3. /\ faults = MaxFaults /\ HalfMade /\ FirstTable \in tables
         /\ pc["hbase-regionserver"] # "create" => HalfTables
      /\ HalfTables => LastTable \notin tables
      BY DEF HalfTables, HalfMade
<1>4. /\ named \in 1 .. FormatSteps - 1 /\ pc["namenode"] # "make" => HalfName
      /\ HalfName /\ ServingInvariant => ~Up("namenode")
      BY StepsAssumption DEF HalfName, ServingInvariant
<1>b. /\ BareDb /\ pc["mysql-server"] # "make" => RefusedDb
      /\ RefusedDb /\ ServingInvariant => ~Up("mysql-server")
      BY StepsAssumption DEF RefusedDb, BareDb, ServingInvariant
<1>5. /\ db \in 1 .. DbSteps - 1 /\ Up("mysql-server") => HalfDb
      /\ HalfDb => db < DbSteps
      BY StepsAssumption DEF HalfDb
<1>6. /\ keys \in 1 .. KeySteps - 1 /\ Up("umanager") => HalfKeys
      /\ HalfKeys => keys < KeySteps
      BY StepsAssumption DEF HalfKeys
<1>7. QED BY <1>1, <1>2, <1>3, <1>4, <1>b, <1>5, <1>6, PTL DEF InterruptedForGood

=============================================================================
