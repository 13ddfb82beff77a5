----------------------------- MODULE ClusterStart -----------------------------
(***************************************************************************)
(* The start of the containers that keep data: docker-compose.yml, the     *)
(* entrypoints of hadoop-base and hbase-base, namenode/run.sh,             *)
(* hregionserver/run.sh and create_table.sh, opentsdb/start.sh and         *)
(* alertd/start.sh (the clients of HBase), mysql/entrypoint.sh and         *)
(* umanager/start.sh.                                                      *)
(*                                                                         *)
(* Four things are made once: the name directory of HDFS, the tables of    *)
(* HBase, the data directory of MySQL and the signing key of the update    *)
(* manager.  Each is made in several steps and counts as made when the     *)
(* first step, or an early one, is done.  Docker restarts every container  *)
(* that exits (restart: always) but umanager, whose service is commented   *)
(* out in docker-compose.yml; containers and the whole host crash between  *)
(* any two steps, and the scripts poll one another's services.             *)
(***************************************************************************)
EXTENDS Naturals, Sequences

CONSTANTS
    Tables,         \* what create_table.sh creates, in that order
    Clients,        \* the containers that wait for the tables
    ReadyNeeded,    \* consecutive empty master-status answers, 9
    FormatSteps, DbSteps, KeySteps,   \* steps of the other initialisations
    DbMark,         \* the step of mysqld --initialize-insecure that makes mysql/
    Groups,         \* the containers that are brought up together
    MaxFaults       \* bound

ASSUME TablesAssumption ==
    /\ DOMAIN Tables = 1 .. Len(Tables) /\ Len(Tables) \in Nat \ {0, 1}
    /\ \A i, j \in 1 .. Len(Tables) : Tables[i] = Tables[j] => i = j

ASSUME StepsAssumption ==
    /\ ReadyNeeded \in Nat \ {0}
    /\ FormatSteps \in Nat \ {0}
    /\ DbSteps \in Nat \ {0}
    /\ DbMark \in 1 .. DbSteps
    /\ KeySteps \in Nat \ {0}
    /\ MaxFaults \in Nat

ASSUME ClientsAssumption == Clients \subseteq {"opentsdb", "alertd"}

Containers == {"namenode", "datanode", "zookeeper", "hbase-master",
               "hbase-regionserver", "mysql-server", "umanager"} \cup Clients

\* The services of docker-compose.yml.
Restarted == Containers \ {"umanager"}

ASSUME GroupsAssumption == Groups \subseteq SUBSET Containers

Pollers == {"hbase-regionserver"} \cup Clients

TableSet == {Tables[i] : i \in DOMAIN Tables}
FirstTable == Tables[1]          \* UID_TABLE
TsdbTable == Tables[2]           \* TSDB_TABLE
LastTable == Tables[Len(Tables)] \* vsms_callbackInfo

\* SERVICE_PRECONDITION of docker-compose.yml.
Preconditions ==
    [c \in {"datanode", "hbase-master", "hbase-regionserver"} |->
        CASE c = "datanode" -> <<"namenode">>
          [] c = "hbase-master" -> <<"namenode", "datanode", "zookeeper">>
          [] c = "hbase-regionserver" ->
                <<"namenode", "datanode", "zookeeper", "hbase-master">>]

VARIABLES
    pc,         \* where each container's script is
    rsd,        \* the region server's daemon, in the background of run.sh
    settled,    \* the master has no task left: its status is []
    ready,      \* _ready of the scripts that poll the master
    next,       \* the position of the hbase shell in create_table.sh
    \* what is kept on disk
    tables,     \* the tables that exist
    named, db, keys,   \* steps done of the other initialisations
    \* history and bounds
    skipped,    \* the tables whose creation failed
    faults

diskVars == <<tables, named, db, keys>>
hbaseVars == <<rsd, settled, ready, next>>
vars == <<pc, rsd, settled, ready, next, tables, named, db, keys, skipped,
          faults>>

\* Some of the services are brought up: what does not depend on one another
\* may be looked at apart.
Init ==
    /\ \E g \in Groups :
          pc = [c \in Containers |-> IF c \in g THEN "down" ELSE "absent"]
    /\ rsd = "none"
    /\ settled = FALSE
    /\ ready = [c \in Pollers |-> 0]
    /\ next = 1
    /\ tables = {}
    /\ named = 0
    /\ db = 0
    /\ keys = 0
    /\ skipped = {}
    /\ faults = 0

Up(c) == pc[c] = "up"

Goto(c, where) == pc' = [pc EXCEPT ![c] = where]

-----------------------------------------------------------------------------
(* Starting, and the entrypoints of the hadoop-base and hbase-base images. *)

\* Where the script of a container begins.
FirstStage(c) ==
    CASE c \in DOMAIN Preconditions \cup {"umanager"} -> "wait"
      [] c \in {"namenode", "mysql-server"} -> "look"
      [] c = "zookeeper" -> "up"
      [] OTHER -> "poll"

\* docker (re)starts a container, or somebody starts umanager.
Start(c) ==
    /\ pc[c] = "down"
    /\ Goto(c, FirstStage(c))
    /\ UNCHANGED <<hbaseVars, diskVars, skipped, faults>>

\* The services an entrypoint waits for.  In hbase-base the quoted expansion
\* of the string is a single word for the loop, of which wait_for_it gets
\* the first part.
AwaitedBy(c) ==
    IF c = "datanode"
    THEN {Preconditions[c][i] : i \in DOMAIN Preconditions[c]}
    ELSE {Preconditions[c][1]}

\* All awaited ports are open: exec.  run.sh of the region server starts the
\* daemon in the background and goes on with create_table.sh.
PassPreconditions(c) ==
    /\ c \in DOMAIN Preconditions
    /\ pc[c] = "wait"
    /\ \A s \in AwaitedBy(c) : Up(s)
    /\ IF c = "hbase-regionserver"
       THEN Goto(c, "poll") /\ rsd' = "starting"
       ELSE Goto(c, "up") /\ UNCHANGED rsd
    /\ UNCHANGED <<settled, ready, next, diskVars, skipped, faults>>

\* wait_for_it gives up after 100 tries: the container exits.
PreconditionFails(c) ==
    /\ c \in DOMAIN Preconditions
    /\ pc[c] = "wait"
    /\ \E s \in AwaitedBy(c) : ~Up(s)
    /\ Goto(c, "down")
    /\ UNCHANGED <<hbaseVars, diskVars, skipped, faults>>

-----------------------------------------------------------------------------
(* The initialisations that are made once, but for the tables.             *)

\* namenode/run.sh: hdfs namenode -format is run, and leaves a directory that
\* holds anything as it is.
LookAtName ==
    /\ pc["namenode"] = "look"
    /\ Goto("namenode", IF named = 0 THEN "make" ELSE "serve")
    /\ UNCHANGED <<hbaseVars, diskVars, skipped, faults>>

FormatStep ==
    /\ pc["namenode"] = "make"
    /\ named' = named + 1
    /\ IF named' = FormatSteps THEN Goto("namenode", "serve") ELSE UNCHANGED pc
    /\ UNCHANGED <<hbaseVars, tables, db, keys, skipped, faults>>

\* A namenode whose directory is not complete exits.
Serve ==
    /\ pc["namenode"] = "serve"
    /\ Goto("namenode", IF named = FormatSteps THEN "up" ELSE "down")
    /\ UNCHANGED <<hbaseVars, diskVars, skipped, faults>>

\* mysql/entrypoint.sh: the data directory is initialised unless its mysql
\* subdirectory is there.  mysqld refuses to initialise a directory that has
\* other files in it, left by a step before: the container exits.
LookAtDb ==
    /\ pc["mysql-server"] = "look"
    /\ Goto("mysql-server", IF db = 0 THEN "make"
                            ELSE IF db < DbMark THEN "down" ELSE "up")
    /\ UNCHANGED <<hbaseVars, diskVars, skipped, faults>>

DbStep ==
    /\ pc["mysql-server"] = "make"
    /\ db' = db + 1
    /\ IF db' = DbSteps THEN Goto("mysql-server", "up") ELSE UNCHANGED pc
    /\ UNCHANGED <<hbaseVars, tables, named, keys, skipped, faults>>

\* set -e: the script exits at the first command that fails.
DbStepFails ==
    /\ pc["mysql-server"] = "make"
    /\ faults < MaxFaults
    /\ faults' = faults + 1
    /\ Goto("mysql-server", "down")
    /\ UNCHANGED <<hbaseVars, diskVars, skipped>>

\* Faulty variant: the key is made at every start.
FindMySQLAnew ==
    /\ pc["umanager"] = "wait"
    /\ Up("mysql-server")
    /\ Goto("umanager", "make")
    /\ UNCHANGED <<hbaseVars, diskVars, skipped, faults>>

\* umanager/start.sh waits for MySQL, and makes the key unless .gnupg exists.
FindMySQL ==
    /\ pc["umanager"] = "wait"
    /\ Up("mysql-server")
    /\ Goto("umanager", IF keys = 0 THEN "make" ELSE "up")
    /\ UNCHANGED <<hbaseVars, diskVars, skipped, faults>>

\* gen_keys.py: the key ring, the key, its name in umanager.conf.
KeyStep ==
    /\ pc["umanager"] = "make"
    /\ keys' = keys + 1
    /\ IF keys' = KeySteps THEN Goto("umanager", "up") ELSE UNCHANGED pc
    /\ UNCHANGED <<hbaseVars, tables, named, db, skipped, faults>>

\* gen_keys.py fails: um_daemon.py is started all the same.
KeyStepFails ==
    /\ pc["umanager"] = "make"
    /\ faults < MaxFaults
    /\ faults' = faults + 1
    /\ Goto("umanager", "up")
    /\ UNCHANGED <<hbaseVars, diskVars, skipped>>

-----------------------------------------------------------------------------
(* HBase, as far as the scripts depend on it.                              *)

\* The daemon of the region server reports to the master.
Register ==
    /\ rsd = "starting"
    /\ Up("zookeeper") /\ Up("hbase-master")
    /\ rsd' = "up"
    /\ UNCHANGED <<pc, settled, ready, next, diskVars, skipped, faults>>

\* Without Zookeeper it gives up; run.sh does not notice while create_table.sh
\* runs.
DaemonAborts ==
    /\ rsd \in {"starting", "up"}
    /\ ~Up("zookeeper")
    /\ rsd' = "dead"
    /\ UNCHANGED <<pc, settled, ready, next, diskVars, skipped, faults>>

\* The master has finished its start, which takes a region server.
Settle ==
    /\ ~settled
    /\ Up("hbase-master")
    /\ rsd = "up"
    /\ settled' = TRUE
    /\ UNCHANGED <<pc, rsd, ready, next, diskVars, skipped, faults>>

\* A master without Zookeeper or HDFS exits.
MasterAborts ==
    /\ Up("hbase-master")
    /\ ~(Up("zookeeper") /\ Up("namenode") /\ Up("datanode"))
    /\ Goto("hbase-master", "down")
    /\ settled' = FALSE
    /\ UNCHANGED <<rsd, ready, next, diskVars, skipped, faults>>

\* The scripts' test of master-status.
MasterReady == Up("hbase-master") /\ settled

\* The master can create tables.
Serving == MasterReady /\ rsd = "up"

-----------------------------------------------------------------------------
(* create_table.sh, opentsdb/start.sh, alertd/start.sh                     *)

\* The master must be found idle several times in a row.
PollMaster(c) ==
    /\ pc[c] = "poll"
    /\ IF ~MasterReady
       THEN ready' = [ready EXCEPT ![c] = 0] /\ UNCHANGED pc
       ELSE IF ready[c] + 1 < ReadyNeeded
            THEN ready' = [ready EXCEPT ![c] = @ + 1] /\ UNCHANGED pc
            ELSE /\ ready' = [ready EXCEPT ![c] = 0]
                 /\ Goto(c, IF c = "hbase-regionserver" THEN "list" ELSE "table")
    /\ UNCHANGED <<rsd, settled, next, diskVars, skipped, faults>>

\* Faulty variant: the last table is looked for.
MarkLast == LastTable

\* The table that decides whether tables are created.
Mark == FirstTable

\* echo list | hbase shell; asked again while there is no master.
ListTables ==
    /\ pc["hbase-regionserver"] = "list"
    /\ Up("hbase-master")
    /\ next' = 1
    /\ Goto("hbase-regionserver", IF Mark \in tables THEN "up" ELSE "create")
    /\ UNCHANGED <<rsd, settled, ready, diskVars, skipped, faults>>

\* The list fails in another way: its text does not name the table.
ListFails ==
    /\ pc["hbase-regionserver"] = "list"
    /\ faults < MaxFaults
    /\ faults' = faults + 1
    /\ next' = 1
    /\ Goto("hbase-regionserver", "create")
    /\ UNCHANGED <<rsd, settled, ready, diskVars, skipped>>

\* After the last create the shell ends, and run.sh brings the daemon back to
\* the foreground.
NextCreate ==
    IF next < Len(Tables)
    THEN next' = next + 1 /\ UNCHANGED pc
    ELSE next' = 1 /\ Goto("hbase-regionserver", "up")

\* create of a table that exists is an error without effect.
CreateTable ==
    /\ pc["hbase-regionserver"] = "create"
    /\ Serving
    /\ tables' = tables \cup {Tables[next]}
    /\ NextCreate
    /\ UNCHANGED <<rsd, settled, ready, named, db, keys, skipped, faults>>

\* A create fails, by chance or since HBase is gone: the shell goes on with
\* the next one.
CreateFails ==
    /\ pc["hbase-regionserver"] = "create"
    /\ \/ ~Serving /\ UNCHANGED faults
       \/ faults < MaxFaults /\ faults' = faults + 1
    /\ skipped' = skipped \cup ({Tables[next]} \ tables)
    /\ NextCreate
    /\ UNCHANGED <<rsd, settled, ready, diskVars>>

\* fg finds no daemon, or the daemon ends: the container exits.
ForegroundEnds ==
    /\ Up("hbase-regionserver")
    /\ rsd = "dead"
    /\ Goto("hbase-regionserver", "down")
    /\ rsd' = "none"
    /\ UNCHANGED <<settled, ready, next, diskVars, skipped, faults>>

\* Faulty variant: any of the tables will do.
AwaitedTableFirst == FirstTable

\* Faulty variant: a table that create_table.sh does not make.
AwaitedTableRenamed == "renamed"

\* The table whose page the clients wait for.
AwaitedTable == LastTable

\* table.jsp of the awaited table answers 200.
FindTable(c) ==
    /\ pc[c] = "table"
    /\ Up("hbase-master")
    /\ AwaitedTable \in tables
    /\ Goto(c, IF c = "opentsdb" THEN "exists" ELSE "up")
    /\ UNCHANGED <<hbaseVars, diskVars, skipped, faults>>

\* opentsdb/bin/start.sh looks for its own table, and exits if the answer is
\* that it does not exist.
CheckTsdb ==
    /\ \E c \in Clients :
          /\ pc[c] = "exists"
          /\ Goto(c, IF Up("hbase-master") /\ TsdbTable \notin tables
                     THEN "down" ELSE "up")
    /\ UNCHANGED <<hbaseVars, diskVars, skipped, faults>>

-----------------------------------------------------------------------------
(* Crashes.                                                                *)

\* What a container takes with it; disks stay.
Lost(cs) ==
    /\ pc' = [c \in Containers |-> IF c \in cs THEN "down" ELSE pc[c]]
    /\ ready' = [c \in Pollers |-> IF c \in cs THEN 0 ELSE ready[c]]
    /\ rsd' = IF "hbase-regionserver" \in cs THEN "none" ELSE rsd
    /\ settled' = (settled /\ "hbase-master" \notin cs)
    /\ next' = IF "hbase-regionserver" \in cs THEN 1 ELSE next

\* A container crashes, or the host.
Crash ==
    /\ faults < MaxFaults
    /\ faults' = faults + 1
    /\ \/ Lost({c \in Containers : pc[c] # "absent"})
       \/ \E c \in Containers : pc[c] \notin {"absent", "down"} /\ Lost({c})
    /\ UNCHANGED <<diskVars, skipped>>

\* The region server's daemon dies alone.
DaemonDies ==
    /\ rsd \in {"starting", "up"}
    /\ faults < MaxFaults
    /\ faults' = faults + 1
    /\ rsd' = "dead"
    /\ UNCHANGED <<pc, settled, ready, next, diskVars, skipped>>

-----------------------------------------------------------------------------
ContainerStep(c) == Start(c) \/ PassPreconditions(c)

Initialise ==
    \/ LookAtName \/ FormatStep \/ Serve
    \/ LookAtDb \/ DbStep
    \/ FindMySQL \/ KeyStep

ScriptStep ==
    \/ \E c \in Pollers : PollMaster(c)
    \/ ListTables
    \/ CreateTable \/ CreateFails
    \/ ForegroundEnds
    \/ \E c \in Clients : FindTable(c)
    \/ CheckTsdb

Hbase == Register \/ Settle

Trouble ==
    \/ \E c \in Containers : PreconditionFails(c)
    \/ DaemonAborts \/ MasterAborts
    \/ DbStepFails \/ KeyStepFails
    \/ ListFails
    \/ Crash \/ DaemonDies

Next ==
    \/ \E c \in Containers : ContainerStep(c)
    \/ Initialise
    \/ ScriptStep
    \/ Hbase
    \/ Trouble

Spec == Init /\ [][Next]_vars

\* Docker restarts what has exited, but for umanager, and every script goes on
\* when it can; nothing is assumed of crashes, failed commands and timeouts.
Fairness ==
    /\ \A c \in Restarted : WF_vars(Start(c)) /\ WF_vars(PassPreconditions(c))
    /\ WF_vars(LookAtName) /\ WF_vars(FormatStep) /\ WF_vars(Serve)
    /\ WF_vars(LookAtDb) /\ WF_vars(DbStep)
    /\ WF_vars(FindMySQL) /\ WF_vars(KeyStep)
    /\ \A c \in Pollers : WF_vars(PollMaster(c))
    /\ WF_vars(ListTables) /\ WF_vars(CreateTable \/ CreateFails)
    /\ WF_vars(ForegroundEnds)
    /\ \A c \in Clients : WF_vars(FindTable(c))
    /\ WF_vars(CheckTsdb)
    /\ WF_vars(Register) /\ WF_vars(Settle)

FairSpec == Spec /\ Fairness

-----------------------------------------------------------------------------
(* Properties.                                                             *)

TypeOK ==
    /\ pc \in [Containers -> {"absent", "down", "wait", "look", "make", "serve", "poll",
                              "list", "create", "table", "exists", "up"}]
    /\ rsd \in {"none", "starting", "up", "dead"}
    /\ settled \in BOOLEAN
    /\ ready \in [Pollers -> 0 .. ReadyNeeded - 1]
    /\ next \in 1 .. Len(Tables)
    /\ tables \in SUBSET TableSet
    /\ named \in 0 .. FormatSteps
    /\ db \in 0 .. DbSteps
    /\ keys \in 0 .. KeySteps
    /\ skipped \in SUBSET TableSet
    /\ faults \in 0 .. MaxFaults

\* create_table.sh is in the middle of its run, or was stopped there: some
\* table is there and the last one is not.
HalfMade == tables # {} /\ LastTable \notin tables

\* opentsdb and alertd look for one table, the last: when they run, every
\* table has been made but those whose creation HBase refused.  Crashes, and
\* a second run of create_table.sh over some tables, included.
StartedOnWholeSchema ==
    \A c \in Clients : Up(c) => TableSet \ tables \subseteq skipped

\* The data directory has files in it, and no mysql subdirectory.
BareDb == db \in 1 .. DbMark - 1

\* What is left half made is never completed by restarting: with no fault to
\* come, a client never starts on tables that were left half made with the
\* first one there, the name directory never serves, MySQL never runs on a data
\* directory without its mark, and MySQL and the update manager run, time and
\* again, on what they have.
InterruptedForGood ==
    /\ [](faults = MaxFaults /\ HalfMade /\ FirstTable \in tables
             /\ pc["hbase-regionserver"] # "create"
           => [](LastTable \notin tables))
    /\ [](named \in 1 .. FormatSteps - 1 /\ pc["namenode"] # "make"
           => []~Up("namenode"))
    /\ [](BareDb /\ pc["mysql-server"] # "make" => []~Up("mysql-server"))
    /\ [](db \in 1 .. DbSteps - 1 /\ Up("mysql-server") => [](db < DbSteps))
    /\ [](keys \in 1 .. KeySteps - 1 /\ Up("umanager") => [](keys < KeySteps))

\* The region server's daemon has died before create_table.sh has found the
\* master ready: the script polls for good, and nobody restarts the daemon.
Wedged ==
    /\ pc["hbase-regionserver"] = "poll"
    /\ rsd = "dead"
    /\ ~settled

\* create_table.sh is over and has left a table out.
LeftOut == Up("hbase-regionserver") /\ ~(TableSet \subseteq tables)

Serves(c) == Up(c) \/ pc[c] = "absent"

\* In the end MySQL runs, and so do the update manager, if it was started after
\* its last crash, and the clients of HBase, whatever the order in which
\* containers start and crash: but for a data directory without its mark, a name
\* directory half made, a wedged region server and a table left out, the four
\* states no restart policy gets out of.
EventuallyServing ==
    <>[](/\ \/ /\ Serves("mysql-server")
               /\ Serves("umanager") \/ pc["umanager"] = "down"
            \/ BareDb
         /\ \/ \A c \in Clients : Serves(c)
            \/ named \in 1 .. FormatSteps - 1
            \/ Wedged
            \/ LeftOut)

\* What is in the making is not made.
MakingInvariant ==
    /\ pc["namenode"] = "make" => named < FormatSteps
    /\ pc["mysql-server"] = "make" => db < DbSteps
    /\ pc["umanager"] = "make" => keys < KeySteps

\* Why the clients find the whole schema, as an inductive invariant: the
\* tables before the shell's position have been tried, and so have all of
\* them once the last one is there, which a client has seen.
SchemaInvariant ==
    /\ pc["hbase-regionserver"] = "create"
       => \A i \in 1 .. next - 1 : Tables[i] \in tables \cup skipped
    /\ LastTable \in tables => TableSet \subseteq tables \cup skipped
    /\ \A c \in Clients : pc[c] \in {"exists", "up"} => LastTable \in tables

=============================================================================
