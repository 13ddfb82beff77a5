# Verification of docker-cwiz

docker-cwiz packages a monitoring platform: images and start scripts for HDFS,
HBase, OpenTSDB, MySQL and the platform's own services, templates of their
configuration, an installer, and the *update system* that delivers
configurations to the agents on monitored hosts. The platform's services
themselves (alertd, cmservice, webfront, ...) are not in the repository; most
of what is there is configuration, data and vendored dashboards. Three parts of
the code have something to get wrong:

- the update system, a protocol spread over machines, restarted, interrupted
  and raced against: the core of this project;
- the start of the containers that keep data, scripts that poll one another and
  make things once;
- the charts of alert reports, drawn in a headless browser with a script of
  their own and `lodash.js`, which is by far the longest program in the
  repository, with several implementations of everything.

## Inventory

| component | source | state | hard behaviour |
|---|---|---|---|
| update agent | `template/umanager/bin/uagent.py`, `scripts/copy_configs.py` | the host's `version.json`, its configuration files, the download directory | files replaced between four downloads, truncated downloads, kills between any two writes, failed copies |
| version arithmetic | `uagent.py:54-167` | none | components left out, comparison of versions of different lengths |
| update manager daemon | `bin/um_daemon.py`, `bin/get_tokens.sh` | the Zookeeper lock, the window (`lastHourDateTime`), the token file | late visible edits, failed requests, failover, lost sessions, signals |
| update manager | `bin/update_manager.py` | `VERSIONS`, `PLATFORMS`, the temporary directory, the directories nginx serves | errors in the middle of an item or a host that are passed over, version bumped while read, late commits, kill during the copy, reload after each run |
| HBase table bootstrap | `hregionserver/run.sh`, `create_table.sh`, `opentsdb/start.sh`, `alertd/start.sh` | the tables | interrupted creation, failed creation passed over, waits without bound on another container |
| service preconditions | `docker-compose.yml`, `hbase-base/entrypoint.sh`, `hadoop-base/entrypoint.sh` | none | only the first of the services named is waited for (hbase-base), restarts in any order |
| MySQL and HDFS initialisation | `mysql/entrypoint.sh`, `namenode/run.sh` | the data directory, the name directory | initialisation interrupted after its mark was set |
| umanager container | `umanager/start.sh`, `gen_keys.py` | the signing key | made once, a failure is passed over |
| report charts | `template/alertd/conf/reporting/load.js`, `*.htm.template` | the page, the upload | the browser exits ten seconds after the page was opened, whether or not the upload is over |
| lodash | `template/alertd/conf/reporting/lodash.js` | wrappers of chains, caches, timers | the same result on several paths: lazy or not, by length, by NaN, by what the engine has; timers against calls |
| startup | `template/startup/*.sh` | supervisord's states | restart loops over shared flags |
| installer | `scripts/*.sh` | the allocation of services to hosts | - |
| operations tools | `template/tools/**` | credentials in twelve files (`update-creds.sh`) | partial failure |
| agent packaging, collectors | `template/agent/**` | - | - |

How the containers depend on one another (`wait_for_it` in the entrypoints, the
polling in the scripts):

    namenode <- datanode <- hbase-master <- hbase-regionserver -> create_table.sh
    zookeeper <--------------'                      |  tables
    opentsdb, alertd  -- poll master-status, then table.jsp of the last table
    mysql-server <- umanager: the key, then um_daemon

How the update system works, and who calls whom:

    CMDB / alertd  --updatedConfig?from,to per token-->  update_manager.fetcher
    MySQL (clock, tokens) --> um_daemon --run(from,to)--> update_manager
    update_manager.packager: package, version.json, two signatures per host
    update_manager.deployer: cp -rf  -->  directories that nginx serves
    nginx  --four https downloads-->  uagent --install.py--> the host's files
    supervisord restarts um_daemon and uagent; Zookeeper keeps one um_daemon

What makes it correct: a host installs only what belongs together and is
signed, never goes down in version, and what its `version.json` says is
installed is installed; no edit is passed over by the windows of the daemon;
what is served under a version is what that version stands for; and all of
this whatever fails or is killed on the way. No service runs on part of the
schema it needs, and what is made once is made whole or stays known as
unfinished. A chart shows the right hosts and their values at the right dates,
and lodash's many paths to a result agree. Each hazard of the code is listed
in `PROJECT.json` at the line where it bites.

## Modules

| module | models | extends |
|---|---|---|
| `VersionNumber` | class VersionNumber | |
| `UAgent` | UAgent.run / upgrade_once / download_file, install.py | VersionNumber |
| `UMDaemon` | um_daemon.main, getUpdatedConfig, get_tokens.sh | |
| `UpdateManager` | UpdateManager.run: fetcher, packager, deployer | VersionNumber |
| `UpdateSystem` | manager and agent of a host over one directory | UpdateManager, INSTANCE UAgent |
| `ConfigDelivery` | what the two promise, abstractly | |
| `ClusterStart` | docker-compose.yml, entrypoints, start scripts, initialisations | |
| `LodashBase` | lodash's internal functions of arrays | |
| `LodashArrays` | the array methods | LodashBase |
| `LodashCollections` | collections, sorting, aggregating, numbers | LodashArrays |
| `LodashLaws` | what these methods promise | LodashCollections |
| `LodashLazy` | method chains, evaluated lazily | LodashArrays |
| `LodashCache` | Hash, ListCache, MapCache, Stack, SetCache, memoize | LodashBase |
| `LodashCompare` | isEqual of arrays that contain one another | LodashCache |
| `LodashDebounce` | debounce and throttle | LodashBase |
| `ChartReport` | load.js and the scripts of the charts | LodashArrays |
| `MC*` | the instances that TLC checks; `MCReport` is that of `ChartReport` and all of `Lodash*` | |
| `*_proofs` | theorems and proofs (`UpdateSystem_proofs` continues `UpdateManager_proofs` and `VersionNumber_proofs`; `MCVersionNumber_proofs` is about the verdicts on version strings of `MCVersionNumber`, `Lodash_proofs` about `LodashCache`, `LodashCompare`, `LodashDebounce`, `ChartReport` with the functions of `LodashArrays` that it calls, and `LodashLaws`' promise of `orderBy`) | the module, TLAPS |

### UAgent

One action per step at which another process can be seen: each request
(`HeadFile`, `GetFile`), the tests on version.json (`CheckVersion`) and on the
package (`CheckPackage`), `Unpack`, the copy of each file (`CopyTarget`), and
the two halves of `shutil.copyfile` on `version.json` (`OpenRecorded` empties
it, `WriteRecorded` fills it). `recorded` is the host's `version.json`,
`applied` its configuration files, `dl` the download directory, `srv` what the
server offers. A file is its content: the release a version.json describes, the
checksum of a package, for a `.sig` file the content that it signs. A name of
an update directory stands for the four kinds of `run()` in their order, which
`Urls` gives; those in `OffhourOnly` may be skipped.

The server (`StartDeploy`, `DeployFile`) replaces files one at a time, in any
order, with any set of files that the packager can leave (`Packed`), and drops
a copy that another one overtakes. Trouble is a request that fails
(`RequestFails`), a connection closed early (`GetTruncated`), a a package that
does not unpack (`UnpackFails`), a failed copy (`CopyFails`), an exception of
`shutil.copyfile` at either half (`RecordFails`: nothing catches it and the
process ends) and `Kill`: (`UnpackFails`), a failed copy (`CopyFails`) and `Kill`:
supervisord stops the agent with SIGKILL and its process group with it. `last`
(the last release recorded whole) and `failed` (targets whose last copy failed)
are history: they are written and never read by the program's actions.

### UMDaemon

`now` is MySQL's clock, which stamps edits and bounds windows. An edit is
stamped (`MakeEdit`) and becomes visible to queries later (`ShowEdit`), at most
`MaxLag` later: the clock does not tick past that. `Top` is the head of the
loop and the start of an iteration, up to the request for the first token;
`FetchToken` one request; `FinishRun` the end of an iteration that succeeded.
A request that times out (`FetchFails`) gives the iteration up as a whole, an
answer that is not JSON (`FetchGarbage`) only its token. What happens to the
edits after they are fetched is UpdateManager's subject. `fetched` and
`dropped` are history: an edit is in `dropped` when the code gives it up for one
of three reasons, an answer that was not JSON (`update_manager.py:81`), a token
missing in the token file (`get_tokens.sh:32`), and a day without a master
(`um_daemon.py:89`).

`OneMaster` is about the lock: only a daemon at work holds it, and a second
master at work has cost a session; there is no other way to two, whatever is
restarted, fails or crashes. The code counts iterations without bound and uses
the remainder; `count` is that remainder.

`shutdown_requested` is the module's global variable, which nothing assigns;
`ShutdownSignal` records that a signal came.

### UpdateManager

One iteration after the other of `run()`, in the steps at which editors can
intervene, an error can be passed over or the process be killed. Edits draw
their `configVersion` from a sequence and commit later, possibly out of order
(`EditConfig`, `CommitConfig`); a window is any set of edits above a version
that passes no edit by (`Reaches`), which is what UMDaemon's
`NoEditLeftBehind` says of the daemon's windows. `confs` is the host's
temporary directory as far as a release depends on it: whether a configuration
is named in install.conf, and whether its file was written. An item may fail at
any of its steps (`Failures`): before the host's directory is made (a key is
missing), with the directory and no name in install.conf, after the name, with
the version remembered or without, with part of the file. A host may be given
up by the packager before its package is complete (`PackFails`: install.conf,
install.py or the archive cannot be written), or after it (`ReadFails`,
`SignFails`, or no version or platform remembered, `Remembered`). `tmp` and `nginx`
are the four files of a release there and where nginx serves them.
`get_current_version` reads three numbers by three requests; two of them
(`ReadMinor`, and the last one in `WriteJson`) show what a bump in between
does. `amiss` and `torn` are history: versions that a run left out by an error
or a late commit, hosts whose version was read while it was bumped.

### UpdateSystem and ConfigDelivery

The files that the manager's `DeployFile` puts where nginx serves them are the
ones that the agent's `HeadFile` and `GetFile` read: `UAgent` is instantiated
with `srv` defined as that directory (`Directory`) and without server actions
of its own (`MaxDeploys` is 0). A step is one of the manager and the editors
(`ManagerStep`), of the agent (`AgentStep`), or trouble on the host
(`AgentTrouble`). `DeploysOneRelease` says that the manager only does what the
server actions of `UAgent` allow, so that what is checked and proved of `UAgent`
applies here.

`ConfigDelivery` knows the edits made, the edit of each configuration that the
host holds, and a number that the host claims to stand for. It lets an edit
arrive only in place of an older one (or of a file cut short), and a claim be
made only when the last edit of each configuration up to it has arrived, or
when it, or a later one, has been given up. A file may be cut short while it is
replaced, and its edits be given up with it (`Damage`). `ConfigDelivered` is
the specification of `ConfigDelivery` under a refinement mapping: what the host
holds is read off its files (`Held`), the claim is the last number of the
version recorded, and given up is what a run left out (`amiss`), what went with
a release that was replaced before the host got it (`Replaced`), and what went
with a copy that failed, or that was cut short by a kill when the server had a
package without it by then (`FailedNow`; both are in `lost`). That edits go
with a release that is replaced is how the code works: a package has the edits
of one window, not those of the ones before.

`NothingStuck` holds at any time but while the agent replaces its version.json:
the last edit of a configuration that a run has asked for is on the host, or in
a release that the agent will install, or was lost in a way that has a name.
Besides those above these are: a mixture of runs, while files are copied or when
a kill ended the copying (`Broken`), a file cut short by a kill whose
release was replaced by one of a lower version (`Rewound`), a release for
another operating system (`Reinstalled`), an agent's version that was read
while it was bumped (`torn`), and a version.json left empty (`Bricked`).

### ClusterStart

One action per command of a script at which another container, a crash or the
restart by docker can be seen. `pc` is where each container's script is;
`tables`, `named`, `db` and `keys` are on disk and survive crashes, `rsd` (the
daemon in the background of `hregionserver/run.sh`), `settled` (the master's
state), `ready` and `next` (positions in the scripts) do not (`Lost`). `Start`
is docker's; `PassPreconditions` and `PreconditionFails` are the two ends of
`wait_for_it`; `LookAtName`, `FormatStep`, `LookAtDb`, `DbStep`, `FindMySQL` and
`KeyStep` are the initialisations that are made once, in steps, with a mark
that an early step sets: the first one, or for MySQL step `DbMark`, in which
`mysqld --initialize-insecure` makes the directory `mysql/`. When it does that,
and that it refuses a directory with other files in it (`BareDb`), is mysqld's
behaviour and not in the repository: `DbMark` may be any of the steps;
`PollMaster` and `ListTables` are the loops of `create_table.sh`, of which
`CreateTable` and `CreateFails` are single commands of the hbase shell.
`FindTable` and `CheckTsdb` are the clients'. `skipped` (tables whose creation
failed) and `faults` are history.

The entrypoint of `hbase-base` goes through a string as if it were an array and
takes the first word of it only: `AwaitedBy` has one service there, where
`docker-compose.yml` names three and four.

The service `umanager` is commented out in `docker-compose.yml` (488-501): its
container is started by somebody else, and nobody restarts it (`Restarted` has
the others). Its script and the key are modelled all the same, for `start.sh`
is what the image runs.

### Lodash

lodash's functions appear under their names, as operators from arrays to
arrays. An array is a sequence, an index counts from 0 as in the code, and
`At(array, i)` is `array[i]`. A callback is a function; `Undefined` is an
argument that is not given. Values are numbers and atoms; `NaN` is one of these,
and `StrictEq` and `eq` tell how it compares. A function that returns any of
several values (`shuffle`, `sample`) is the set of them. Variants of a function
with an iteratee or a comparator are one operator, as in the code (`baseUniq`),
and a path that the length of the array decides is kept, with its threshold a
constant. Early returns for empty arrays that return what the rest would, are
left out.

- `LodashLazy` builds chains call by call (`Call`, `Commit`, `Plant`), keeping
  the wrapper as the code does (`chained`: actions, filters, views) and the
  array that the same methods return one by one (`eager`).
- `LodashCache` runs `set`, `delete` and `clear` on a MapCache beside the
  function that it stands for (`kept`), and memoize beside the results it must
  return. The engine may have a `Map` or not.
- `LodashCompare` is the recursion of `equalArrays` with its frames and the
  Stack, one element a step (`CompareElement`, `LeaveArrays`). What it must find
  is `Alike`, the most pairs of arrays of the same length whose elements are the
  same or again such a pair.
- `LodashDebounce` has the code's variables as ages (`sinceCall` for
  `lastCallTime`), timers that are due and handled at any later moment, a clock
  that may be set back, and calls of `cancel` and `flush` in between.
- `LodashLaws` has no actions: arguments are drawn in the initial state, and the
  invariants compare what the methods return with what they promise.

`ChartReport` is `load.js` (open the page, draw, post the image, exit) with the
script of the line charts: `showTopN`, the axis as the union of the hosts'
dates, and the series. It draws for each order in which the hosts may come.
`ValuesAtTheirDates` says of which hosts the values are drawn at their dates in
every order: those whose dates are the first of the dates of any other host
shown, or the other way round (`InStep`). A host that lacks the first date, or
one in the middle, is misplaced or misplaces another one; the property holds in
both directions, so it says exactly when. `TopHostsShown` ranks hosts by their
last values, of whatever dates these are, and shows more than `TopN` if the
least are equal; the comment of the page (`brokenLineChart.htm.template:17`) has
nothing about either.

## Runs

| run | question | result |
|---|---|---|
| `version` | is the comparison of version strings a total order, and an abbreviated one an upper bound? | holds |
| `uagent` | does a host ever install a mixture, go down in version, or claim what is not installed? | holds |
| `uagent_live` | does a host get what there is in the end, and what does an interrupted replacement of `version.json` cost? | holds |
| `uagent_copied` | does a recorded release mean that all its files were copied? | violated: the exit code of install.py is dropped |
| `uagent_limit` | is no file larger than the limit stored? | violated: `int > str`, and the file is replaced after the head request |
| `umdaemon` | is there one master? does a window pass an edit by? is every edit fetched in the end? | holds |
| `umdaemon_stop` | does a daemon stop on SIGTERM? | violated: the handler assigns a local variable |
| `update_manager` | is what is served complete for its version, for the right platform, under versions that go up? | holds |
| `update_manager_memory` | are versions remembered, as the comment says? | violated: `reload` empties them after each run |
| `cluster_start` | does a client ever run on part of the schema? what is never repaired, and what serves in the end? | holds |
| `update_system` | does every edit arrive, or is given up for a named reason, and never an older one over a newer one? | holds |
| `report` | do charts show what they should, and lodash's paths to a result agree? | holds, with the exceptions below |

Bounds and why they are enough:

- `version`: components 0 and 1, `sys.maxsize` 3, up to four components, any of
  them empty: each branch of `cmp` and of the constructor on both sides.
- `uagent`: the installed release and three to install (two of the same version
  with different packages, as the overlapping windows make them, and a newer
  one that replaces fewer files), two directories, two targets, two deployments,
  one fault and one kill. Two deployments to one directory give every mixture of
  two releases; with two directories an older release can be offered after a
  newer one.
- `uagent_live`: one directory that only off hours open, two releases to
  install, one target, the same numbers of deployments, faults and kills. With a
  second directory before it, which may fail or hold a mixture, it was run once
  (1.0 million states).
- `uagent_copied`, `uagent_limit`: no kills, which the counterexamples do not
  need.
- `umdaemon`: two daemons, two tokens of which one appears later, an edit of the
  latter, an overlap of one and a lag of two time units (the largest lag the
  assumption allows), a day of one and a clock from 2 to 5: three windows and a
  day without a master fit; one fault (error, crash, signal, lost session,
  deleted token). More edits add nothing: windows treat them independently,
  and the proof covers any number.
- `umdaemon_stop`: one daemon, two faults.
- `update_manager`: one host (hosts meet only in the batch of a run, of which
  nothing is shared between keys), two configurations, three edits, two runs,
  one bump or change of platform, one fault. Two runs are what it takes for a
  window that overlaps, a memory that is lost, and a half-copied release.
- `cluster_start`: three tables (the one looked for first, OpenTSDB's own, and
  the one the clients wait for), two answers in a row instead of nine, two steps
  for each other initialisation and three for the database (before, in and after
  the one that makes the mark), two faults, `opentsdb` as the client (`alertd` does the same without
  `CheckTsdb`). MySQL and umanager share nothing with the rest and are started
  apart from it (`Groups`). Two faults are what it takes to interrupt something
  and to disturb the restart.
- `update_system`: one host, two configurations, two edits, two runs, and one
  fault or kill, of the manager or of the agent; no bumps, which
  `update_manager` covers. Two runs and two configurations are what it takes for
  a release to replace one that held another edit. Larger instances were run
  once: two faults or kills, at most one of them the manager's (3.3 million
  states); one configuration with three runs and two faults of the manager to a
  depth of 54 steps, one with a bump and two platforms (2.8 million states); and
  two configurations with three runs by simulation (38 million states). The
  theorems of `UpdateSystem_proofs` hold for all bounds.
- `report`: arrays of up to three, beside a second one of up to two, over 1, 2,
  NaN, null and undefined, with `LARGE_ARRAY_SIZE` 3, so that arrays are on both
  sides of it; three calls a chain of every kind of method (four were checked
  once, 2.2 million states); three arrays of two elements in every way they can
  contain one another, call stacks up to five deep, which is more than the
  pairs a comparison can be inside of without running away; `wait` 2 with a
  `maxWait` below, at and above it, two timers pending, a clock that is set back at
  any time, after a long silence too; two hosts shown of up to
  three, which lack dates at the end, at the start, in the middle or all of
  them.

`CHECK_DEADLOCK FALSE` is set where the system may stop: the server has no
deployments left and the agent ended up without a kill, the manager has no runs
left, all containers are up or a name directory is half made, a chain has all
its calls, arrays are compared, the browser has exited.

Fairness. `UAgent`: weak fairness of the agent's own steps, because supervisord
starts it for ever (`autorestart`, `supervisord.conf:33`) and none of its steps
waits for another process; strong fairness of trying each directory, because
off hours come back and nothing else skips a directory. No fairness of the
server or of trouble. `UMDaemon`: weak fairness of each daemon's steps
(`umanager.ini:5`), including taking a lock that is free; none of clock, edits,
tokens or trouble. `UpdateManager` and `UpdateSystem` are checked for safety
only: what a run has asked for (`NothingStuck`) is on the host or installable,
and `EventuallyCurrent` of `UAgent` says that what is installable gets
installed; liveness of the composition as such is out of TLC's reach.
`ClusterStart`: weak fairness of docker's restarts (`restart: always` in
`docker-compose.yml`) of every container but umanager, whose service is
commented out there, and of each command of the scripts; none of crashes,
failures and timeouts. `EventuallyServing` promises umanager only if it is not
down. `LodashDebounce`: time goes on and the event loop gets to
each timer that is due; `LastCallDelivered` further takes it that the clock is
not set back for ever.

## Proofs

All proofs are for any values of the constants that satisfy the ASSUMEs of the
modules, the bounds on faults, kills and runs included: they are arbitrary
naturals.

- `VersionNumber_proofs`: a version string parses to a version; `Cmp` is
  antisymmetric and 0 only on equal versions, the order is total and
  transitive, and a version in the upgradeFrom range of a valid release is
  older than the release.
- `MCVersionNumber_proofs`: `CompareIsLexicographic` and `PrefixIsUpperBound`, for
  strings of any length whose components are at most `sys.maxsize`
  (`StringsAssumption`; the prefix of a string with a greater component would not
  be an upper bound). `VerdictInvariant` ties the verdict to the two strings,
  `LtIsLexLess` the code's `cmp` to the textbook order.
- `UAgent_proofs`: `TypeOK`, `NoMixedInstall`, `VersionGoesUp`,
  `RecordedIsInstalled`, `BrickedForGood`. The inductive invariant adds to them what the control
  state stands for: past `CheckVersion`, the downloaded version.json is signed,
  and newer than `last`, and nobody writes it again (`AcceptedInv`); past
  `CheckPackage` the package is the one it describes (`PackageInv`); `recorded`
  is `last` unless it is torn (`RecordedInv`), which ties the comparison with
  the file on the host to the history; and while install.py runs, the targets
  that are not to be copied any more were written by this release or their
  copy failed (`CopiedInv`). `RecordedIsInstalled` is inductive relative to
  these because only a newer release overwrites a target. For `BrickedForGood`,
  an agent with an empty version.json never is past `CheckVersion`
  (`BrickedInv`): the empty file can only be left behind by a kill or a failed
  write, which ends the run that was.
- `UMDaemon_proofs`: `OneMaster` (with the types in it) and `NoEditLeftBehind`,
  the latter from the assumption `MaxLag <= Overlap + 1`. An edit that is not visible was stamped at most
  `MaxLag` ago (`Lagging`); a master's window starts in the past (`Past`); and
  an edit of the current window whose token has been asked for was either
  returned, given up, or stamped within `MaxLag` of the window's end, so that
  the next window reaches back to it (`Asked`).
- `ClusterStart_proofs`: `TypeOK`, `StartedOnWholeSchema` and
  `InterruptedForGood`, for any tables, clients and groups. The clients see only the last table, so what has to be
  carried through crashes and second runs of `create_table.sh` is that the
  tables before the shell's position have been tried (`SchemaInvariant`):
  whenever the last one is there, each is there or its creation failed.
  `MakingInvariant` bounds the steps of the other initialisations. That what is
  half made stays so is, for each of the five states that can be (a database
  with its mark or without), that the state described is never left
  (`HalvesStay`); it needs that only a whole name directory serves
  (`ServingInvariant`).
- `UpdateManager_proofs`: `TypeOK`, `PlatformOfRun`, `VersionCoversRun`,
  `OfferedVersionGoesUp` and `NothingNewUnderOldVersion`. What a release covers depends on edits that commit
  after its run began: `DrawnInvariant` gives them a number greater than all that
  the run or a release stands for, unless the run knew of them (`amiss`);
  `WindowInvariant` says the same of the committed edits of the window that the
  run did not fetch; so a version.json that covers its window when it is written
  (`JsonCovers`) goes on to do so (`CoverInvariant`). That versions go up, with
  a memory that is lost after each run, rests on the windows
  (`OfferedInvariant`): one that reaches behind an edit returns it, or a later one
  in its place, so a run for a host fetches at least what the host was offered;
  `SeenInvariant` makes the greatest of it the version. `OriginInvariant` tells the
  files of this run from those of earlier ones, half of which may still lie in
  the directory.

  For `NothingNewUnderOldVersion`, in addition, numbers are drawn once
  (`UniqueInvariant`), the packager passes over no host whose items the run has
  not left out (`PackedInvariant`, where the early return for a host without
  version is shown to be for such hosts only), and what has been asked for, or
  is behind the offered version, has been served or left out
  (`ServedInvariant`). All these invariants were checked with TLC before the
  proofs, on the instance of `update_manager` and on one of two hosts with one
  configuration and two edits (3.2 million states).
- `UpdateSystem_proofs`: `DeploysOneRelease`, `ConfigDelivered` and `NothingStuck`.
  The second is a simulation: `InitPromised`, and each step is one that
  `ConfigDelivery` allows (`StepPromised`), given `SystemInvariant`. That
  invariant follows an edit on its way. What a run has of each edit
  (`FetchedInvariant`) makes its release `Sound`: the last edits up to its
  number are in its package, were served before, or have been given up.
  Soundness is kept on the way through the manager's directory, the server, the
  download and the host (`SoundInvariant`), and so is the order: no release
  holds older edits than one further down (`OrderInvariant`), which is why a
  newer edit is never overwritten. The claim needs the edits a package leaves to
  earlier ones: what was served is still there, has arrived, or is given up
  (`DeliveredInvariant`), and by the time a package has been downloaded what it
  does not hold is no longer there (`BehindInvariant`, with `ArrivalInvariant`,
  which relates the files downloaded to those the server has now).

  `NothingStuck` needs the order of versions beside that of edits. An edit that
  was served and has not arrived is at the server (`DeliveredInvariant`), where
  files of one run are a complete release (`FilledInvariant`). If that is newer
  than the release recorded, the agent installs it; `AcceptedInvariant` says
  that the recorded version.json is the last one, or empty. If it is not newer,
  its number is at most the one recorded, for the agent's own version only goes
  up from the CMDB to the host (`AgentVersionInvariant`); so the edit is among
  those that the recorded release claims, and has arrived, or was cut short by a
  newer release (`RecordedInvariant`), which is the case `Rewound`. The proof
  uses neither that the manager is idle nor that its run was finished, so the
  property does not ask for that.

  The invariants were checked with TLC before they were proved, those for
  `NothingStuck` with a bump of the agent's version and two platforms, on the
  first 6.5 million states.
- `Lodash_proofs`: `CacheIsMap`, `MemoizeIsTransparent` and `OncePerCall`, for
  any keys, values, cap and settings of debounce. A cache stands for a function
  if each of its parts does for its own keys (`MapFor`, `HashFor`, `ListFor`);
  `set`, `delete` and `clear` keep that, with the size. `MemoInvariant` has
  such a function in which each key goes with its result, and
  `WaitingInvariant` says that arguments are pending exactly as long as a call
  is owed.

  `EqualIsAlike` and `NoRunaway` hold for any heap of arrays, of any length, that
  contain one another (`CompareSpec`), `NoRunaway` if the call stack has room for
  a call for each of the arrays (`FewArrays`): with more of them, arrays nested
  deeper than the stack would fill it in any case. The calls form a path from the
  first pair (`CallsOK`), and the Stack has pairs of these calls only: all of
  them, in their order, as long as it is a list; some, once it is a MapCache,
  which may have lost the pair of an array that was entered again (`StackOf`).
  isEqual takes an inner pair for equal on the assumption that the pair further
  out is. What makes that sound is a set of pairs compared to the end, of which
  the elements agree by the set and the pairs the calls are inside of
  (`CoveredBy`). When a call ends, its pair moves from the latter to the former;
  when the first one ends, nothing is assumed any more, and a set that agrees by
  itself is `Alike` (`CoverEnd`). If on the other hand the first two arrays are
  alike, each pair on the path is (`ChainAlike`), so a difference can only come
  from the Stack, which tells of an array that was met inside itself. For
  `NoRunaway`, each call is inside of an array that the calls around it are not
  inside of (`FreshCalls`), so that there are no more of them than arrays.
  Without a Map in the engine nothing is lost and the call stack suffices
  (`EndsWithoutMap`).

  Of the charts, `TopHostsShown` and `ValuesAtTheirDates` hold for any finite
  set of hosts, any points with integers for values and any `TopN`
  (`ChartSpec`). What is drawn is what `Draw` makes of the data
  (`ChartInvariant`), so both are about the functions it calls. Folds become
  functions on sets of indices of which existence is proved (`Sorts`, `IsFold`),
  and their values follow by induction over the indices. `array.sort` returns
  each value once, in order, those alike as they stood (`SortIsStable`, by
  `SortedAt`, which knows the place of each value); in such a ranking the hosts
  before a place are as many as the place says, and those that exceed a host are
  before it (`CountRanked`), so showTopN hides a host if and only if `TopN` or
  more exceed it (`TopNHides`). The axis is a chain of unions; `uniq` returns the
  values in the order first seen whether it searches the array or makes a Set
  (`UniqOnEitherPath`), so the union of two columns of which one is the front of
  the other is the longer one (`UnionOfFronts`), and after any number of hosts
  each column so far is a front of the axis (`AxisOf`). The other way round, if
  the columns of two hosts are both fronts of an axis, one is the front of the
  other (`Joined`), and a host that is out of step with another one is not in its
  place on the axis of an order that begins with that other one, which has the
  latter's dates first (`FirstOf`). All this needs that no host has
  two values for one date (`IsDated`), which uniq would merge on the axis and not
  in the series, and that a column of dates is not itself a value without inside
  (`NoneAnAtom`).

  `OrderByStable` holds for arrays of any length and iteratees that return
  integers, NaN, null or undefined (`IterateesAssumption`; `LodashLaws` does not
  model criteria that are strings). `compareAscending` puts numbers first, by
  value, then null, undefined and NaN (`Ascends`); as long as NaN comes once, its
  verdicts, in either direction, do not contradict each other (`EitherWay`), nor
  do those of one criterion after the other (`OneAfterAnother`). That is what
  `SortIsStable` asks of a comparer, so what `orderBy` sorts, the values with
  their criteria and their indices, comes out in order; being a rearrangement, it
  has each value as often as before (`AsOften`).

Only model-checked:

- liveness: `EventuallyCurrent`, `EveryEditFetched`, `EventuallyServing`,
  `LastCallDelivered`, which rest on fairness and ENABLED;
- what lodash's functions of arrays return (`LodashLaws`), `OrderByStable`
  apart, and its chains (`LodashLazy`, whose operators are recursive), as far as
  charts do not need it: these are inductions over data, each with a loop of its
  own.

## Disagreements found

Four runs show the code at odds with what its comments and names say; the
quotes are in `PROJECT.json`: the download limit (`uagent.py:385`), the exit
code of install.py (`uagent.py:414`), the shutdown flag (`um_daemon.py:37`) and
the versions remembered (`um_daemon.py:112`).

Found on the way, and kept as exclusions with names in the properties, since no
line of the repository says otherwise:

- `ClusterStart`: a data directory of MySQL left with files and without `mysql/`
  (`BareDb`), a name directory whose format was interrupted, a region
  server whose daemon died before `create_table.sh` found the master ready
  (`Wedged`: the script polls for ever and nobody restarts the daemon), and a
  table whose creation failed (`LeftOut`) are states that no restart gets out
  of. Tables left half made with the first one there are never completed
  (`InterruptedForGood`); MySQL and the update manager run on a half made data
  directory or key.
- `UpdateSystem`: edits go with a release that is replaced before the host has
  installed it; a run interrupted while it deploys leaves a mixture that the
  agent refuses until the next release (`Broken`); a copy that a kill cuts short
  is made up for by the next run of the agent only as long as the server has
  that release, and not when the release that replaced it has a lower version
  (`Rewound`), which the next run of the manager makes when an item of the first
  one fails.
- `LodashLazy` (`GoesAstray`): on a chain that was filtered before, another lazy
  method after `initial`, `tail` or `slice` loses that step (`lodash.js:16896`,
  `16931`); a filter after `take` lets `take` count the values after both filters
  (`16850`, `16871`); `reverse` after `dropRight(0)` does the steps before them on
  the reversed array; `takeRightWhile` on a reversed chain that was not
  filtered loses its action (`16944`).
  `slice` with a negative start and an end takes `end - start` values (`16939`):
  such slices are left out of the calls. The methods' own documentation says that
  `reverse` changes the array it is called on; a chain is compared as if each of
  its evaluations had an array of its own.
- `LodashCompare`: a Stack that has become a MapCache loses the outer pair when
  an array is entered again, so that cyclic arrays can make isEqual recurse
  until the call stack is full (`reentered`); and some arrays that no path of
  indices tells apart are taken for different (`crossed`).
- `LodashLaws`: `lastIndexOf(array, undefined)` does not find anything in an
  array without one and returns its length (`7657`); `compareAscending` puts two
  NaN before each other, so `sortBy` is not stable for them (`4643`);
  `sum([undefined])` is undefined; `xorBy` of a single array ignores the
  iteratee.
- `LodashDebounce`: a throttled function can run twice within `wait` after a
  timer that was handled late, which its documentation excludes (`10867`);
  `flush` leaves a timer behind, harmlessly (`OncePerCall`).
- `ChartReport`: the exit after ten seconds cuts an upload that is still going
  on (`upload = "cut"`), with nobody told; and when a host lacks a date in the
  middle, or the first one, values are drawn at the wrong dates, since the series
  is positional (`ValuesAtTheirDates` says when).

In `PROJECT.json`, the lines of a lodash function begin at its own comment.

## Not modelled

The text of configuration files, logs and messages; the restart of filebeat by
install.py; the content of keys and signatures (a signature is of a content or
it is not); `requests`' and `gnupg`'s internals; the server side of alertd and
of the CMDB (external: not in the repository, seen through the queries of
`update_manager.py` and `get_tokens.sh`); HBase, HDFS and MySQL beyond what the
scripts ask them; the substitution of settings by the entrypoints; titles,
colours and legends of charts.

Of lodash: strings and templates, cloning, merge and paths into objects,
function wrappers (`curry`, `bind`, ...) and type tests, which the charts do not
use and whose difficulty is in JavaScript's values rather than in a protocol;
sparse arrays, array-likes, symbols and -0. Flattening is modelled for arrays of
atoms and arrays, one level after the other, where the code goes inside each
value in turn.

The installer, the operations tools, the startup helpers, the agent's packaging
and the collectors are not modelled yet or are one-shot scripts; configuration
templates, dashboards and SQL dumps are data.

## Plan

Done: the update system with its composition and `ConfigDelivery`; the start of
the containers; charts and the part of lodash that has state or several paths.
Left, in this order:

1. `StartServices` (`template/startup/helpers.sh`: restart loops over flags that
   the functions they call set) and `PasswordRotation` (`update-creds.sh`).
2. lodash's `cloneDeep` and `merge` over arrays that contain themselves, which
   share the Stack of `LodashCompare`; the installer's allocation if it proves
   worth it.
