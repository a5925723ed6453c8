# chainsawman: a TLA+ model of its tasks, graphs, groups and imports

chainsawman keeps software-dependency graphs. Users define a *group* (a schema), create *graphs* of it,
import files into them, browse them and run Spark algorithms on them. The long work is done
asynchronously: the Graph service publishes a task, a Task consumer handles it, the browser polls for the
result. A cron task imports packages from PyPI every hour. This directory models the protocols of the system
in TLA+, checks them with TLC on small instances, and proves their main safety properties with TLAPS for all
instances.

All references `file:line` are to the repository.

## 1. Inventory

| Component | State | Operations | Interacts with | What is hard | What makes it correct | Module |
|---|---|---|---|---|---|---|
| **Task pipeline**: `graph/cmd/api/internal/util/task.go`, `graph/mq/task_impl_v2.go`, `graph/db/redis_impl.go`, `consumer/task/main.go`, `consumer/task/db/redis_impl.go` | status key per task in Redis (TTL 3600 s); message, retry counter and lease in asynq; two worker slots per consumer | `PublishTask`, `FetchTask`, `ScheduleTask`, `handle`, `reportError` | browser polls the Graph service; both services share Redis | two records of one task; timeouts and shutdowns that leave the goroutine running; crashes, lost leases, lost replies, rolling updates | no overlapping handlers but in a rolling update; done means stored; Err means no further attempt; outcomes are stable; the queue drains; the poller is answered | `TaskQueue` |
| **Legacy queue**: `graph/mq/task_impl.go`, `consumer/task/mq/task_impl.go` (used when `TaskMqEd` is `task_ed`) | Redis stream, pending entries | DEL, XGROUP CREATE, XADD, XREADGROUP, XACK | as above | each start of a Graph replica deletes the stream; an entry that failed, or whose delivery was lost, is never read again; the client sends commands again | nothing else loses an entry; what is acknowledged has its result; a failure stays with its entry | `RedisStream` |
| **Graph lifecycle**: `creategraphlogic.go`, `updategraphlogic.go`, `dropgraphlogic.go`, `dropgrouplogic.go`, `handler/createGraph.go`, `handler/updateGraph.go` | graph row (status, counters) in MySQL; Nebula space | create, update, drop a graph; drop a group; the two handlers | both services write the row; Nebula and MySQL share no transaction | the status is the only lock, a browser page holds a copy of it, and the cron task ignores it; each call can fail alone; handlers outlive the row | a created graph has a space; a deleted one has none; counters match; the status settles | `GraphLifecycle` |
| **Update batches**: `updateGraph.go`, `MultiInsert*`, `MultiIncNodesDeg`, `common/excel.go` | batch in hand, degree map | read, flush, count, add degrees | Nebula | flush boundary, rows in error, statements that fail in the middle, updates side by side, a second run | degrees and counters match the files; no edge dangles | `UpdateBatches` |
| **Cron import**: `handler/cronPython.go` | two id caches, id generators | `Handle`, `handleReleaseIfAbsent`, `getIDsFromCache` | Nebula, sca, OSS, `UpdateGraph.Handle` | cached ids of vertices that were never written; a tick that fails in the middle of a file; rows that are skipped; errors taken for answers | an id names one package; edges have both ends | `CronPython` |
| **Scheduler start-up**: `graph/cmd/api/graph.go`, `CreateCronTask` | `prepare_<id>` and per-minute keys in Redis | `schedule`, `CheckIdempotent` | Redis, MySQL, asynq's scheduler | locks with expiry, replicas, a crash after the lock, a prepared graph that is dropped | the graph is prepared once while it is there; schedulers have keys of their own; somebody schedules | `Scheduler` |
| **Group tree**: `creategrouplogic.go`, `GetGraphByGroupID`, `DropGroupByID`, `getallgraphlogic.go` | tree of groups in MySQL | create, list, drop recursively | foreign keys cascade to graphs | the tree is read in several statements while it changes | nothing of a dropped subtree is left; nobody dereferences a group that is gone | `GroupTree` |
| **Algorithm execution**: `algoexeclogic.go`, `dropalgotasklogic.go`, `livy_impl.go`, `gethotlogic.go`, Spark's `MysqlClientImpl.scala` and `Template.scala` | row of `exec`, Livy batch, file in Minio | submit, insert, finish, drop, list | MySQL, Livy, Spark, Minio | the job ends before its row is inserted; a failed insert; a dropped job finishes; foreign keys | a row has a job, an algorithm and a graph; a listed result can be fetched; a job that ends is seen | `AlgoExec` |
| **Graph reads**: `handler/getGraphDetail.go`, `getNeighbors.go`, `getNodes.go` and their statements | none of their own | walk, look up, list | Nebula | a walk and the look-up of its vertices are two statements; the sample per step | replies are consistent, connected and within their budget | `GraphReads` |
| **front**: `models/global.ts`, `pages/GTable`, `pages/Graph`, `pages/Group` | list of graphs, polling timers | load list, disable links, poll a task | HTTP to the Graph service | stale lists in several pages | decides which requests arrive | in `GraphLifecycle`, `TaskQueue` |
| **Files / OSS**, **sca** (Flask), **algo** (Spark), **scripts**, **k8s** | none of the protocol | I/O, numerics, code generation, configuration | - | - | - | not modelled (section 6) |

`PROJECT.json` lists the hazards line by line, each with the properties that cover it or why none does.

## 2. Modules

    TaskPromise  <---- implements ----  TaskQueueRefinement (TaskQueue + mapping)
        ^                                       |
        | INSTANCE                              | EXTENDS
    GraphLifecycle                          TaskQueue

    RedisStream     the other queue of the configuration, instead of TaskQueue
    UpdateBatches   what GraphLifecycle's LoadBatch and LoadEnds do to the data of one graph
    CronPython      a task of TaskQueue; its UpdateGraph is the one of UpdateBatches, a file per step
    Scheduler       starts the cron tasks of TaskQueue (ScheduleTask there) and creates the graph
    GroupTree       GraphLifecycle's group and its drop, with the tree and without the handlers' failures
    AlgoExec, GraphReads      beside them, on the same tables and spaces

    MC<module>      model values for TLC;   <module>Proofs   theorems

The pipeline is modelled once in detail. What the handlers of published tasks may rely on is stated in
`TaskPromise`; `TaskQueue` is checked and proved to implement it, and `GraphLifecycle`, proved to run its
handlers as it allows, uses it instead of asynq. So the lifecycle model stays small without assuming a kinder
queue than the code has. `RedisStream` does **not** keep this promise: when the client sends an XADD again, a
task runs twice without any restart. The other modules are not composed by `INSTANCE`: each stands for the
others by the few facts named in its comments (for instance, an update inside a cron tick may stop in the
middle of a file).

Two conventions hold everywhere. A call to MySQL, Nebula, Redis, Minio or Livy is one step, may fail, and,
where it matters, may fail *after* its effect. A definition that starts with "A bug:" is not part of the
specification: it is what a plausible mistake in the code would look like, kept to show that the properties
notice it.

### TaskQueue

| Variable | Code |
|---|---|
| `pub[t]` | progress of the `PublishTask` call: `UpsertTask` done (`saved`), enqueued (`ok`), error returned (`failed`) |
| `kv[k]` | `KVTask.status` under id `k`; `none` = never written, `expired` = the TTL of the last SET has passed |
| `late` | SETs of a result whose client call returned an error, or was cut off by a crash, and which Redis may still execute |
| `mq[t]`, `retried[t]` | asynq's message: absent, pending (also: scheduled for a retry), active, archived, done = deleted |
| `pc[t]`, `owner[t]` | the goroutine of the current delivery: in `h.Handle` (`handling`), at `UpsertTask` (`writing`), before the delete (`acking`), before and after the ErrorHandler (`failed`, `reported`), and its consumer |
| `zombie[t][s]` | goroutines of abandoned deliveries in consumer `s` that still are in `h.Handle` |
| `left[t]`, `stopping` | the consumers that pushed `t` back to the queue and still are in its `h.Handle`; the consumers being shut down |
| `view[t]` | what the polling page last saw |
| `started`, `faulted`, `shutdowns` | history variables for the properties |

| Action | Code |
|---|---|
| `UpsertNew`, `ProduceTaskMsg` = `PublishTask` | `task.go:14-38`; each reply may be lost after the effect |
| `ScheduleTask` | a tick of `task_impl_v2.go:74-93`. The payload is serialised once at registration, so all ticks share the id `CronId`; no status is stored before it |
| `FetchTask` | `task.go:40-53`, called by the page's five-second timer while it has no result; the GET may fail |
| `Expire` | the TTL that both `UpsertTask` give their SET |
| `HandleReturns`, `WriteFinished` = `handle` | `main.go:93-111`, without the branch for `DelayTaskErr` (`:96-98`): no handler returns it |
| `reportError` | `main.go:49-61` with its own write failing or not |
| `Dequeue`, `Ack`, `Nack`, `FailMessage`, `Timeout`, `LoseLease`, `Recover` | asynq v0.24.1 (external): worker slots (`Concurrency: 2`), the retry limit, the default timeout of 30 minutes, leases and the recoverer |
| `Shutdown`, `Requeue`, `Exit` | a rolling update: SIGTERM (`main.go:78`); after eight seconds each worker pushes its message back, without counting a retry, and leaves while `h.Handle` goes on; when no worker is left, the process ends |
| `Crash` | a consumer dies at any moment, also while it is being shut down, and is restarted by Kubernetes |
| `ZombieReturns`, `LeftReturns`, `LateWrite` | what is left of abandoned deliveries: the goroutine ends, its context being cancelled its result is not written; a SET in flight lands |

Four properties of asynq shape the model and are why it is not obvious that the pipeline is right. The
timeout does not stop a handler (`h.Handle(task)` takes no context), so a handler goes on beside the queue.
The ErrorHandler runs with the expired context, so its write fails. The recoverer calls no ErrorHandler. And a
shutdown pushes a message back *before* the goroutine that handles it is gone: until that process has ended,
the new replica may run a second handler of the same task beside it. This is the one overlap there is, and the
properties and `TaskPromise` say so.

### TaskPromise, TaskQueueRefinement

A job is `unsent`, `waiting`, `running`, `returned` (not settled) or `ended`. A handler starts only from
`waiting`, and only `PushBack` leads back there: at most once for each `Restart`, and leaving a handler that
was at work behind (`left[j]`) until it returns (`LeftReturns`) or its process ends (`Lose`). `runs[j]` counts
the handlers begun. In `TaskQueue`, `jobPhase` is `running` while a goroutine executes the handler, abandoned
or not, unless its message was pushed back: then it is in `jobLeft`.

### RedisStream

The variables are the stream, the number of entries the group has delivered, the group, the pending entries,
and the record, the publisher, the Graph replica and the consumer. An entry is a pair of a task and the number
of the XADD that added it, since go-redis sends a command whose reply did not arrive again (`MaxTries`, four in
the code), and the first one may have had its effect; `PublishTask` may also return an error for a task whose
entry is in the stream. `StartGraph`, `DelStream` and `XGroupCreate` are the start of a Graph replica
(`graph/mq/task_impl.go:26`): DEL, whose error is ignored, loses what is there, and a failing XGROUP CREATE ends
the process. `XReadGroup`, `Handle`, `UpsertFinished` and `XAck` are the loop of
`consumer/task/mq/task_impl.go:37-60`; `XReadGroupLost` is a delivery whose reply does not arrive (`:44`): the
entry is pending and nobody handles it. `added`, `acked`, `deleted` and `hit` are history: `hit` names the entries
whose own delivery or handling met an error or a crash, so that a property can say that only those suffer. An
entry that was delivered once is never delivered again, which is why no entry is handled twice and why one that
failed stays unfinished.

### GraphLifecycle

| Variable | Code |
|---|---|
| `group`, `row[g]`, `num[g]` | rows of MySQL; `Init`, `OK`, `Update` are `GraphStatus*` of `common/consts.go:3-7`; `num` is `numNode + numEdge` counted in batches |
| `space`, `held[u]` | Nebula spaces, and the batches of update `u` they hold |
| `call[j]`, `by[u]`, `page[b]` | the request that publishes task `j`, the page that sent it (or `Cron`), the graphs a page shows as online |
| `phase`, `left`, `runs`, `restarts` | the job (`TaskPromise`) |
| `step[j][p]`, `loaded[u][p]` | position of the handler and its counters `numNode`, `numEdge`; the place `p` is `Main` for the handler of the current delivery, or the process that left one behind |
| `drop`, `groupDrop`, `toDrop` | `DropGraph` calls between their two statements; position and rest of `DropGroup` |
| `dropped`, `hit`, `eager` | history: spaces dropped by some call; graphs hit by a failed call or a crash; updates sent while their page had not heard of an earlier one |

The actions follow the statements of the logic and handler files, split where another process can come in
between: `InsertGraph`/`MarkUpdate` and `Publish`; `DropGraphSpace` and `DropGraphRow`; `ListGraphs`,
`DropListed` and `DropGroupRow` (the foreign key cascades to the graphs); `CreateReadsGroup`,
`CreateSpace`, `CreateMarksOK`; `UpdateReadsGroup`, `LoadBatch`, `LoadEnds`, `UpdateDefers` (the deferred
write, executed on every return). An UPDATE of a missing row changes nothing (`SetStatus`). Every call to
MySQL or Nebula may report an error with or without its effect.
A page sends an update or a drop only for a graph it shows as online, because it disables the links
otherwise (`GTable/index.tsx:286-309`); the service itself checks nothing. It may send a second one before the
first is answered, or after an error although the first was published (`Unanswered`; such updates are `eager`).
`CronImport` is the call of `UpdateGraph.Handle` in `cronPython.go:121-122`: it has no request, leaves the status
as it is, and its deferred write sets it to OK. `PushBack` and `ConsumerEnds` are `TaskPromise`'s: after a
restart two handlers of one job may run, each at its place.

The handler `CreateGraph` polls `HasGraph` up to three times but writes OK whatever it found; the polls
therefore are part of `CreateMarksOK` and have no effect.

### UpdateBatches

`h[u]` is the local state of a handler: files left, rows the parser still has, the buffer and how much of it
Nebula has, the counters, the degree map and the vertices still to be updated. `FetchSource`, `ReadRow`,
`ReadEnd`, `Insert`, `Inserted`, `CountDegrees`, `MultiIncNodesDeg` follow `updateGraph.go` statement by
statement. A row is good, short (skipped) or has an id that is no number (the end of an edge file; in a node
file only Nebula finds it). A statement that fails may have written any part of its rows (`InsertPart`), of
an undirected edge one direction, and a session may be refused also when the batch or the degree map is empty.
A stream may break for ever after its last row: the code then reads on without
end, which is why only updates whose streams do not break must end. `mixed` names the updates that ran next
to another one (history). Which batch size the code uses is a constant (`maxInsertNum`, 100000).

### CronPython

`tick` holds where the tick is, the packages to do, the next ids and the rows of the four files; `cache` is
the process's, and outlives it. A package is one step (`handleReleaseIfAbsent`), with each of its look-ups
failing or not: an error of `GetIDsByPrimary` reads as "not there", an error of the library's look-up fails
the tick after the release's id was cached. `UpdateGraph` loads one file per step and may stop after any part of
it. The names and texts of sca go into the CSV files unquoted (`cronPython.go:170`) and the import skips rows that
do not parse (`updateGraph.go:154`), so that any vertex of a file may be missing from a file that was loaded
"completely"; rows of edges are pairs of numbers and always parse. (A text that makes two well-formed rows of
one, with an id of its own, is left out.)
`given` and `missed` are history: which id was given to which name, and which names were there and not found.
Ticks run one at a time, and a name of the tick's own files does not leave the cache before the tick is
over (its life is a day).

### Scheduler

Time is counted in minutes. `lease` is when the lock `prepare_1` expires, `keys` the minutes whose key was
taken, `row` the table of graphs by id. A replica passes through the statements of `schedule` and
`CreateCronTask`: `Lock`, `GetGraphByID`, `InsertGraph`, `PublishTask`, `Wake`, `CreateCronTask`,
`ScheduleTask`, each with its error path; an error of `Lock` or `CreateCronTask` may come after the key was taken.
`UserCreates` may take the id 1, which the code asks for and does not get, and `UserDrops` deletes any rows,
the prepared graph's too (`dropped`); ids are not given again. The one assumption, `Prompt`, is in the guard of
`Minute`: from the lock to the insertion takes less than the hour that the lock lasts.

### GroupTree

`DropGroup` walks the tree twice: `FindGraphs`/`FindChildren` depth-first for the graphs whose spaces are
dropped one after the other (`DropSpaces`), then `Bfs` level by level for the ids of one `DELETE`, whose
foreign keys take the rows of graphs along. The root may be dropped like any other group: the page does not
offer it, and the service does not look. `GetAllGroups` and `GetGraphs` are the two queries of
`GetAllGraph`. `under` and `had` in a call record what was below its group when it began, and `late` what was
created next to a call or had not made its space yet (both history, for the properties only).

### AlgoExec

`call`, `job`, `exec`, `output`, `drop`, `reader` are the request, the Spark job, the row, the file, the
`DropAlgoTask` and `DropGraph` calls, several of which may work on the same task or graph, and a page that lists
finished tasks and then fetches their files. A file that does not parse panics in a goroutine of the request
(`gethotlogic.go:58`), which ends the Graph service with all its requests (`Crash`). Algorithms and graphs can be
dropped where the foreign keys of `exec` allow it. `CheckParams` has the rules for parameters
(`algoexeclogic.go`): strings must not be blank, numbers must parse, an empty list passes.

### GraphReads

A query is a record of its position, its walk so far and its reply. `Sample` is the sequence of sample sizes
the code computes by halving; `MultiGo` is one step of Nebula's `GO ... SAMPLE` (external), `GetNodesByIds`
the second statement. Which vertices are the top ones is left open: the code orders by the stored property `deg`,
which need not be the number of edges. `known` is history: the vertices when the walk began. Imports and a drop of the graph
run beside it. What a walk reaches is stated with closed sets (`Closed`: no edge leads out), without recursion.
The module's names are its own (`ReadSpec`, `ReadIInv`, ...), so that one module of proofs can extend it next
to `AlgoExec`.

## 3. Runs

| Run | Instance | Shows | Distinct states, time (2 workers) |
|---|---|---|---|
| `task_queue_safety` | one published task, one cron task, two consumers with one slot, one retry, one rolling restart, fair | all properties of `TaskQueue`, safety and liveness, the inductive invariant, and that it implements `TaskPromise` | 751 538, 3 min |
| `task_queue_err` | the same | **violation**: after a timeout or crash a failed task still reads New | - |
| `graph_lifecycle` | one graph, one update by a page or the cron task, two pages, one restart | row and space agree, and the inductive invariant, also with two handlers of one job side by side | 5 410 461, 2 min |
| `graph_lifecycle_updates` | one graph, two updates by one page or the cron task, fair | how far the status is a lock, counters when updates of one graph overlap, the status settles | 960 384, 1 min |
| `graph_group_drop` | two graphs, one update | **violation**: dropping a group leaves a space behind | - |
| `algo_exec` | two requests for one algorithm on one graph, two calls that drop, one reader, fair | rows are backed, listed files are there, tasks finish | 116 432, 4 s |
| `update_batches` | three updates; several batches, a loop, a double edge, rows in error, a broken stream, a spreadsheet; one restart; fair | degrees, counters and edges against the files; updates end | 967 019, 2 min |
| `cron_python` | three releases, two libraries, two feeds, two ticks | a name has one vertex; the inductive invariant, and in it that ids and edges agree | 8 288 176, 1 min 30 s |
| `scheduler` | two replicas, four minutes with hours of two, one user's graph, any drops, fair | prepared once, keys of their own, somebody schedules; the inductive invariant | 1 711 242, 50 s |
| `group_tree` | root and two groups, one graph, two drops, one reader | drops are complete, cut no tree and leave no space; the inductive invariant, and in it that lists agree | 1 415 531, 30 s |
| `redis_stream` | two tasks, one of which the client may send twice, one replica that starts again and again, two consumers, fair | what loses an entry, what is acknowledged is stored, failures stay with their entry; the inductive invariant | 416 220, 1 min 30 s |
| `graph_reads` | one query of any kind, three vertices on a cycle, max 4 | replies are consistent, connected, within the budget; the inductive invariant | 173 099, 3 s |

An invariant named `IInv`, `DataAgree` or `RepliesAgree` is a conjunction of the module's type invariant and
named parts, each with its own comment in the module. They are, or contain, the invariants that the proofs are
about (section 4), so that TLC checks each of those on a run.

**Bounds.** `MaxShutdowns` and `MaxRestarts` bound restarts, `MaxTries` the sends of one XADD, `MaxBatch` the
batches of an update, `MaxTicks` the ticks with their retries, `MaxMinute` and `MaxUser` time and users' graphs, `MaxMax` and `MaxTop` what a
query asks for; everything else is bounded by the protocol itself: attempts by the retry limit, requests by
one per job, drops by one per caller. Crashes, timeouts, lost leases, lost replies, late writes, cache
expiries and failing calls are *not* bounded.
- Two consumers are needed for an abandoned handler in one and a delivery in another; one slot suffices for
  contention, since a cron task and a published task then compete. `CronRetry` is 1 instead of 3: first
  attempt, last attempt and their boundary are there. Two ticks that share one id are out of this run's reach;
  the theorems cover every number of retries, ticks and slots (`AttemptsAreBounded` and `ErrIsLast` for ticks).
- One update suffices for the space: `graph_lifecycle` adds what can go wrong with it, a second page, a restart
  that leaves a handler behind, and a second batch. Two updates are the least that overlap, and one page is what
  the lock is about: it can send both. The batches of the code are in `update_batches`, where `maxInsertNum = 1`
  flushes every second row and leaves a remainder or none.
- One command that is sent twice adds a second entry next to the first, at any distance; more sends add more of
  the same.
- Three updates allow one that failed or overlapped *before* another two, and the vertex that one brings and
  another's edge needs.
- Two ticks are a failing one and its successor, which is where the cache outlives the vertices; three
  releases give a chain with a package met twice.
- Four minutes with an hour of two are two ticks of the schedule and a lease that ends.
- Two groups below the root, which may be dropped itself, allow a chain of three and a fork, and drops of a group
  and its child at once.
- Ids up to `MinReleaseID = 4` are reserved for libraries, twice as many as there are, the least that the
  assumption allows.
- `max` up to 4 gives samples with one to three steps and both roundings.

**Symmetry** is used in `graph_lifecycle` (pages) and `group_tree` (groups below the root, callers), all
interchangeable model values, and never in a run with a temporal property.

**Deadlock** is checked in every run except `update_batches`, `cron_python`, `group_tree` and `graph_reads`:
their updates, ticks, calls and queries are finitely many and end, and then nothing more has to happen. What
must happen there is a property (`UpdateEnds`) or no property of a bounded instance.

### Violations found

* `FailureIsStored`: `main.go:53` says that a failed task gets its status written. After a timeout the
  write uses the expired context and fails (`main.go:58`), and after a crash the recoverer archives the
  message without calling `reportError`. The page polls until the key expires; `PollerIsAnswered` shows
  that it is answered *then*, with an error. `ArchivedIsReported` is what does hold.
* `GroupDropIsComplete`: `Group/index.tsx:298` promises that dropping a group removes all graphs of it. A
  create handler that has read the group before `DropGroup` deletes it creates the space afterwards. No
  row refers to that space. `SpacesHaveRows` and `DropOK` show that this is the only way.

### Other disagreements

These are in the models as the code has them; the properties are those that hold in spite of them.

* `cronPython.go:38` says "获得最大ID" (get the largest id); `GetMaxID` (`nebula_impl.go:524`) orders ascending
  and takes one row, the smallest. New ids start at the smallest plus one and may be ids of vertices that are
  there. (`GetMaxID` in `CronPython`; `NewIdsAreDistinct` holds within a tick.)
* `nebula_impl.go:490` ignores an error of a look-up by name as not serious ("非严重错误，忽略");
  `cronPython.go:141` takes the missing answer for "not there" and gives the release a second id.
  (`NamesHaveOneVertex` excepts the names in `missed`.)
* `doc/开发手册.md:447` describes the tick as the periodic update of the graph. A new id is cached
  (`cronPython.go:146`) before anything is written; after a tick that failed, the next one takes the release for
  known and writes nothing of it, until the name leaves the cache a day later. A tick with an edge to such a vertex
  fails until then, when the degrees are added. (`AddDegrees` in `CronPython`.)
* `common/excel.go:231` says "only suppot csv, xls and xlsx"; the parsers share one reader that the first
  advances and nothing rewinds, so that spreadsheets cannot be read. (`NewExcelParser`.)
* `doc/开发手册.md:96` gives each graph `X` a space `GX`. `DropGraph` drops the space and then the row, and the
  foreign key of `exec` refuses the latter when an algorithm was run on the graph. (`DropGraphRow` in
  `AlgoExec`.)
* `graph.go:64` waits so that the prepared graph is there ("保障图谱创建完成") before the schedule starts; only the
  replica that found it missing waits. (`Lock` in `Scheduler`.)
* `task.go:62` checks idempotence ("判断幂等"); the key holds the minute, so a replica that starts a minute
  later schedules too, and an hour has two ticks. (`OneSchedulerPerMinute` is what the key does guarantee.)
* `graph.go:53` asks whether the graph with id 1 is there and creates it otherwise; once that graph was dropped, no
  new one gets its id, and every start after a lease creates another one. (`PreparedOnce` excepts that case.)
* `pages/Graph/index.tsx:301` calls `max` the limit of nodes ("图谱展示节点上限"); the code bounds the edges, and
  by up to twice `max`. (`SampleCoversMax`.)
* `DropGroup` lists the graphs before it drops spaces and reads the tree again afterwards
  (`dropgrouplogic.go:27`): what is created in between keeps its space. (`late` in `GroupTree`.)
* The scripts that generate SQL from descriptions of groups (not modelled): `graph/scripts/graph.sql:11` says
  that a group inherits all types of its parent, `gen_sql.go:160` writes only those the parent's file lists;
  `gen_sql.go:73` collects all tags, `gen_sql.go:54` stores the address of the loop variable (Go 1.20), so that
  all tags of a file are the last one.

### Fairness

`TaskQueue`: weak fairness of what a worker does when it need not wait for a handler, and of asynq's timers
(`Progress`: `WriteFinished`, `reportError`, `Ack`, `Nack`, `Timeout`, `Recover`), of the end of a process that has
no worker left (`Exit`), of `Poll` (a `FetchTask` by the page's interval whose GET succeeds) and of `Expire` (Redis). `HandleReturns` has **no**
fairness: a handler may hang, and asynq's timeout is what frees its slot. Nor has `Requeue`: a message need not be
pushed back. `Dequeue` has strong fairness, because slots are taken and freed in turn and asynq draws the queues at
random by weight. Crashes, lost leases and lost writes have none.

`GraphLifecycle`: weak fairness of `Publish`, `BeginHandler` (justified by `QueueDrains`), and of the
handlers' steps, whose client calls return with a result or an error. No fairness of drops, page loads, cron
imports, crashes or restarts.

`RedisStream`: weak fairness of the start of a replica (`StartGraph`) and of a consumer's loop (`Consume`); strong
fairness of `XGroupCreate`, because a replica that fails at its start is started again until it comes up, and of
`XReadGroup`, because a consumer that is killed again and again (or a stream deleted again and again) takes the
read away in between; the loop blocks on the read and gets a message if there is one. Failures and crashes have
none.

`Scheduler`: time passes, and a replica that runs goes on. `AlgoExec`: Spark runs what it accepted and
writes the status; users do nothing of necessity. `UpdateBatches`: a handler starts and its calls return.
`CronPython`, `GroupTree` and `GraphReads` state no liveness: nothing in them waits for anything.

## 4. Proofs

Each `<module>Proofs` assumes the `ASSUME` of its module, which says of what kind the constants are
(`CronRetry`, `MaxShutdowns`, ... are numbers, cron tasks are tasks, `Nobody` is no consumer, the set of
replicas is finite, an hour has more than one minute, libraries are at most half the ids reserved for them) and
nothing else; other sets may be infinite. The
argument is the same everywhere: `IInv` holds initially and every action preserves it (one step per action,
per conjunct where a conjunct needs it), `PTL` concludes `Spec => []IInv`, and the properties are conjuncts
or consequences.

**`TaskQueueProofs`.** The inductive invariant `IInv` adds to the properties: `DeliveryInv` (a goroutine
exists exactly while a consumer owns the delivery, and the message is active then; an active message
without a goroutine was hit by a fault), `PublishInv` (a message exists only after `saved`), `StatusInv`
(what `kv` may read while a delivery is under way: without it `DoneMeansStored` is not inductive at `Ack`
and `ArchivedIsReported` not at `Nack`), `ZombieInv` (an abandoned handler implies that the message is
active without a running handler, or archived: without it nothing excludes a retry beside it), `LeftInv` (a
handler that was left behind is in a process that is being shut down, which holds no other delivery of the task:
without it a process could handle a task twice), and `AttemptInv` (attempts against `retried` and restarts, of which
the one that still holds the message is not spent). From it follow `NoOverlappingHandlers`, `AttemptsBounded`,
`DoneMeansStored`, `ErrMeansExhausted`, `ArchivedIsReported`, and the action properties
`SettledNeverReopens` and `OneOutcome`; for any number of ticks of one schedule, of which the run has one.

The same module proves the refinement, `PipelineKeepsPromise == Spec => KeepsPromise`: the initial states map to
initial states, and under `IInv` every action maps to a step of `TaskPromise` or a stutter. `Timeout` of a
handling delivery stutters (the handler still runs), `Shutdown` maps to `Restart`, `Requeue` to `PushBack`, and
`Exit` and `Crash` to `Lose`. The step needs `ZombieInv`: for instance `Recover` stutters or settles only because a published message is
never retried.

**`RedisStreamProofs`.** `IInv` adds `QueueInv`: an entry is in the undelivered part of the stream at most
once, who works on an entry, has it pending or has acknowledged it, got it from the stream, and no entry has a
higher number than the XADDs sent. Without it `XReadGroup` could deliver an entry that another consumer works on.
`StoredInv` says that a consumer about to acknowledge has stored the result, or met an error. `StreamInvariant` gives
`OnlyInitLoses`, `AckedIsHandled` and `TwiceOnlyAfterRetry`: no entry is handled twice, so that a task is only when
XADD was sent more than once for it. `AcknowledgedIsStored` is `AckedIsStored`.

**`GraphLifecycleProofs`.** `IInv` adds `HandlerInv` (a handler is at a step exactly while its job runs, or its
process was left with it), `RunsInv` (nothing is left behind without a restart), `BeliefInv` (whoever may believe that
`g` was created - row, page, pending update, drop in progress - is right, or some call dropped the space since),
`CreateOverInv` (then, without a restart, the create handler is over, so that no space can appear after a drop) and
`LockInv`. The cron task's import is an exception to three of them (`Imported`): its deferred write sets a row to OK
whose create handler may still be waiting, so that a page may show, and drop, a graph that has no space yet.
`CreatedHasSpace`, `DeletedLeavesNoSpace`, `OnlineMeansIdle` and `UpdatesOfAGraphExclude` follow.

The last two are about how far the status is a lock, and their premises are what the code leaves to its users.
`LockInv` says that with a single page and no restart, the graph of a pending update does not read online, that
no other update of it is pending, and that the page does not show it online unless the update is still unanswered.
It needs one page (`SinglePage`), since another one that still shows the graph online sends a second update; a user who
does not send one before the first is answered, or after an error (`eager`); and a graph that the cron task does not
import into (`Unlocked`). TLC finds each of these overlaps at once when its exception is taken out; they are what
the service does not check (`updategraphlogic.go:29-47`). A restart really breaks the premise of
`DeletedLeavesNoSpace`: it can run the create handler again after the user dropped the graph. What holds with any number of pages is `CountersMatchSpace`: the counter of a row is the
number of batches in the space, as the cardinality of a set of pairs (update, batch), so that one more finished
update is one more disjoint interval (`BatchesAdd`) and no sum has to be unfolded. `CountInv` strengthens it to
rows of any status: the counter is that of the *finished* updates (`Finished`), and a running handler's own
counter is what it has put into the space. A restart, after which an update may be loaded and counted twice, is excepted. `LifecycleKeepsPromise` closes the chain of refinements: no action of
the module moves a job but as `TaskPromise` allows, which needs no invariant.

**`ReadsProofs`** is about two modules. For `AlgoExec`, `IInv` adds that what is finished, or about to be written
so, was uploaded, and that a request about to insert its row has submitted its job. `HotFindsFile` and
`TaskIsBacked` follow.

For `GraphReads`, `ReadIInv` says of each query by itself (`QueryOK`) that it is `Connected` (every set with the
start that its edges do not lead out of contains the front and all ends met so far: adding edges leaves fewer such
sets, and the new ends are in each of them because the front was) and `WithinBudget` (the edges taken are no more
than the first `step` samples add up to); and of the space, that while it is there, what was `known` is still in it,
which is what makes the second statement find the ends of the edges. `WalkIsConnected` and `RepliesAgree` follow.
`SampleCovers` is about the recursion of `MultiGo` for *every* `max`: the samples add up to at least `max` and at
most twice `max`, and the last is 1. It is an induction over data. The library's induction theorems take an
operator as a parameter, which the provers cannot instantiate; `StrongSetInduction` states induction for a *set*
of numbers, from the fact that `<` is well-founded, and from it follow the existence of the recursive functions
(`HalvesExist`, `SumsExist`: what `CHOOSE` means by a recursive definition), the sum of a sequence with a head
(`SumCons`) and the bounds (`HalvesSampled`).

**`SchedulerProofs`.** `IInv` adds `LeaseInv` (at most one replica is between lock and insertion, under a
lease that has not ended and has no prepared graph: needs `Prompt`), `FirstInv` (without errors, and while nobody
has dropped the graph with id 1, a replica about to insert is the first) and `KeyInv` (who schedules, or is about to,
has taken its key, alone). `PreparedOncePerLease`, `PreparedOnce` and `OneSchedulerPerMinute` follow, the last by an
injection of the schedulers that tick into the keys. `PreparedOnce` needs both premises: a look-up that fails reads as
"not there", and after the drop of graph 1 the look-up never finds one again, so that every lease may create another.

**`UpdateBatchesProofs`.** The argument has two layers. `BaseInv` is inductive by itself: besides the types and
`DegreesNeedEdges` (a vertex with a degree has an edge, in every state) it has `HandlerInv`: the buffer is empty
between files and when degrees are added, and every vertex that a handler has counted is in the graph with an
edge or in a row of an edge file that is still to be sent. Since edges never go, one handler's step can only
help the others (`OneHandlerSteps`); overlapping updates need no further argument there. `RowsInv` then relates
each handler to the *lines* (file, row) it has read, `GoodRead`: a step reads at most one line more (`NextLine`),
the counters are the number of good lines less those in the buffer (`CounterInv`), the degree map counts the
lines of each vertex, and the rows of these lines are in the graph or wait in the buffer (`GraphInv`). Counters
and degrees are cardinalities of sets of lines, not folds over files, which is what makes a step provable
without induction. `AloneInv` adds the degrees of the vertices of an update next to which no other one ran.
`DataAgree` is the two layers together. What a completed update leaves (`CountersMatchRows`,
`DoneLeavesNoDanglingEdge`, `DegreesOfLastLoad`) follows when its handler ends and is kept by the steps of the
others; with these three the invariant is inductive (`AllInv`), for any files, batch sizes, overlaps and
restarts.

**`GroupTreeProofs`.** "Below a group" is the least set of groups that contains it and is closed under children,
stated with a quantifier over all closed sets, so that reachability needs no recursion. The tree that a call of
`DropGroup` works on is changed by other calls and by creations, between each two of its queries; `CallInv`
relates it to the tree at the call's start (`under`) by three sets: *new* groups below it (`New`: all late), the
groups *kept* (`Kept`: of those that another call cut off, whatever is left is late), and those *visited* by the first
walk (`Walked`: the graphs of what is visited are found, and every child of what is visited is visited or on the
agenda). When the agenda is empty, the visited set is closed, hence it contains all that is kept: then
`SpacesInv` says that no space is left behind, and the same argument over the second walk says that the `DELETE`
takes a closed set, which is why it cuts no tree (`GroupsHaveParents`), leaves no space without a row
(`SpacesHaveRows`) and is complete (`DropOK`). That a list finds its groups (`ReaderNeverPanics`) follows from
`ReaderInv`: a group that it has not seen is late.

Nothing in the code remembers which groups a walk has read, so that a cycle of parents would keep `DropGroup` going
for ever. `WalksNeverComeBack` excludes it. `Forest` says that each set of created groups has a member whose parent
is outside it, which holds because a new group is nobody's parent yet; `Fresh` says that the groups read and the
agenda are disjoint and that the parent of everything but the top was read. Then what a query returns was met by
neither: it would have a second parent, or be the top below itself (`TopHasNoParentBelow`).

**`CronPythonProofs`.** Four things are added. `CacheInv`: a cached id was given, and the names of a tick's own
files are cached, so that a name gets an id only once per tick. `WorkInv` (with `Agenda`): the dependencies at
the head of the agenda are those of the package whose id `source` is, which is what makes an edge join what
depends, however lists of dependencies are put in front of the rest. `NumberInv` (`Numbered`, once for libraries
and once for releases): `GetMaxID` returns the *smallest* id, and still a tick's new ids are distinct, because they
ascend from it; a new vertex can overwrite another. Libraries number from 1 and releases from
`MinReleaseID + 1` (2000000, `nebula_impl.go:546`). That the two never meet is not obvious, since every row of a
library may be skipped and the next tick goes on from what is left: `LibrariesFit` says that the smallest id of a
library is at most the number of libraries (a tick without any library starts from 1 and gives out no more than
that), so that a tick, which starts from the smallest, stays below twice that number. Hence the assumption on the
constants. `MissInv`: a name that has a vertex and is about to be written again
was missed by a look-up. `NamesHaveOneVertex`, `NewIdsAreDistinct` and
`EdgesJoinWhatDepends` follow, for any feeds, dependencies (cyclic ones too), expiries, failures, skipped rows,
files that are loaded in part, and restarts.

**Only model-checked:** the liveness properties `QueueDrains`, `PollerIsAnswered`, `StatusSettles`,
`AddedIsFinished`, `SomeoneSchedules`, `TaskFinishes` and `UpdateEnds`: fairness and `ENABLED` are out of the
prover's reach. Every other property of a passing run is a theorem.

## 5. Hazards and what covers them

The properties are named in `PROJECT.json` at the line where each hazard bites. By kind:

* *interleaving, ordering*: `NoOverlappingHandlers`, `SettledNeverReopens`, `OneUpdateAtATime`,
  `OnlineMeansIdle`, `CountersMatchSpace`, `DropOK`, `IInv` of `GroupTree`, `RepliesAgree`, `TaskIsBacked`;
* *crash and restart, lost or late replies, retries*: `IInv` of `TaskQueue`, `OneOutcome`,
  `AttemptsBounded`, `ArchivedIsReported`, `KeepsPromise`, `AckedIsStored`, `PreparedOnce`, `DegreesOfLastLoad`;
* *stale state*: `DeletedLeavesNoSpace`, `HotFindsFile`, `NamesHaveOneVertex`;
* *partial failure*: `SpacesHaveRows`, `GroupsHaveParents`, `CreatedHasSpace`, `DoneLeavesNoDanglingEdge`;
* *boundaries*: `CountersMatchRows` (the flush), `SampleCoversMax` (the halving);
* *liveness*: `QueueDrains`, `PollerIsAnswered`, `StatusSettles`, `AddedIsFinished`, `SomeoneSchedules`,
  `TaskFinishes`, `UpdateEnds`.

## 6. Not modelled, and why

* **Generated code**, about 11 500 of the implementation's 18 000 lines: `*.gen.go` of gorm (queries and
  models), `*.pb.go`, the `types` and the HTTP `handler` packages of go-zero. It holds no decision of this
  program; the models speak of its calls. What is hand-written is far smaller, and most of its lines are
  queries, conversions and wiring.
* **Cron ticks that overlap**: one `CronPython` instance serves both worker slots, and its caches have no
  lock. An import that asynq times out after 30 minutes is enough for an overlap: its goroutine goes on and its retry
  runs beside it. Nothing that should hold of ids survives it.
* **Parsing** of package names and versions (`cronPython.go`, an error of which skips the package, as does
  one of sca), of spreadsheets (never reached) and of quoted csv fields.
* **`MatchNodes`** (`nebula_impl.go:137`): goroutines of one request that write one map without a lock, each
  with a session of its own; a local data race with no protocol state. `getgraphinfologic.go` and
  `getmatchnodesbytag` are single reads.
* **Errors that `handle` takes for a delay** (`DelayTaskErr`, `main.go:96-98`): no handler returns it.
* **The legacy queue's `DelTaskMsg`** has no caller, and its `ScheduleTask` panics.
* Contents of queries, attributes of nodes, weights of asynq's queues (only fairness of `Dequeue` depends
  on them), the delay before a retry.
* Redis, MySQL, Nebula, Minio, Livy and asynq internally, and the loss of Redis itself (it holds both the
  queue and the statuses).
* In `GraphLifecycle`, handlers of tasks that asynq abandoned count as `running` until they return or their
  consumer goes, as `TaskPromise` says; the cron task's import is a job of its own there, run as promised for
  published tasks (a tick and its retry side by side are two updates).
* **sca** (stateless HTTP), **algo** (numerical work on Spark; its status write is in `AlgoExec`), the
  **scripts** (run by hand, one process), **k8s** (the numbers of replicas are constants here), the object
  storage's presigned URLs, and the front's rendering.

## 7. Plan

Done: the modules above, and proofs of every safety property that the runs check. Left:

1. `UpdateBatches` as a refinement of the batches of `GraphLifecycle`.
2. Overlapping ticks in `CronPython`, to say what is left of its properties then.
