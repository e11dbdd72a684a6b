# WebAnalytics: verification project

This directory holds TLA+ models of WebAnalytics, a plugin of the 宝塔 (BT) panel
that counts the requests of every site of a server. The modules model the parts
of the program where threads, processes, files and crashes meet, and the tables
and pages where the numbers must fit together. TLC checks them on small
instances; TLAPS proves, for every value of the constants, nearly every safety
property the runs check. All paths below are relative to the repository.

## The system

One resident process, `scripts/socket_server.py` (a systemd service), receives
one datagram per request from nginx and Apache, and counts it. What was written
to the access logs before the service knew a site is imported from the logs. The
plugin's API (`WebAnalytics_main.py`) runs inside the panel, in another process,
and shares the SQLite database, the settings file and the web server
configuration with the service.

| Component | State | Operations | Interacts with |
|---|---|---|---|
| Live queue, `core/realtime_queue.py` | bounded FIFO, the writer's batch, a running flag, counters | `submit`, `_worker`, `_flush`, `stop`, `snapshot` | called by the service, writes through the repository |
| Log import, `core/collector.py` | open file, list of files to read, cursor and status in the database | `collect_site`, `_sources`, `run_history_backfill`, `update_history_import` | reads files that web servers and logrotate change |
| Resident service, `scripts/socket_server.py` | site mapping, attempted sites, published state of the import | receive loop, periodic synchronisation, import thread, start and stop | live queue, import, registry, configuration |
| Web server configuration, `core/nginx_config.py` | log format files, virtual hosts, extension files | `configure_all(True / False)`, backup, rollback, test and reload | service, API, `install.sh`; the panel writes the same files |
| Site registry, `core/repository.py` | table `sites`, and the per-minute tables and cursors that refer to it | `register_site`, `_merge_site_rows`, `retain_sites`, `set_site_enabled` | service and API synchronise it independently |
| Site discovery, `core/site_discovery.py` | none | a snapshot of the panel's sites and log paths | registry, configuration |
| Statistics recording, `core/repository.py` | tables per minute, per minute and spider, per day and dimension, sketches per hour, the list of requests | `record_batch`, `record_live_batch`, `cleanup_details` | queue and import; the service cleans up |
| Statistics queries, `core/repository.py`, `WebAnalytics_main.py` | none | periods, totals, trends, rankings, several SELECTs a page | recording, in another process |
| HyperLogLog, `core/hll.py` | registers of a sketch | add, merge, estimate | recording, queries |
| Schema and migration, `core/repository.py`, `scripts/init_db.py` | schema version, backups | create, back up, migrate | every process with a database |
| Settings, `core/settings.py` | `config.json` | `load_config`, `save_config` | every process, without a lock |
| Installation script, `install.sh` | data directory, marker, service unit | stop, move, migrate, start; disable, remove | settings, schema, configuration |
| Plugin API, `WebAnalytics_main.py` | settings and repository of one request | pages, save settings, repair | all of the above |
| Dashboard, `static/js/app.js` | page, site, period, number of the last request, loading sign | clicks, timers, answers | plugin API, over HTTP |

### What is hard

* **Two threads without a common lock.** The writer of the queue runs while
  `submit()` and `stop()` do, and the counters are ordinary attributes. The main
  thread of the service decides what to do with a datagram from a dict the
  import thread assigns piecemeal.
* **Two sources of the same request.** A request is in the access log and in a
  datagram, and must be counted once. Which of the two counts it depends on how
  far an import is, on when the site became known, and on what is still in the
  socket buffer.
* **Files that move.** logrotate renames the log while an import reads it; a
  cursor is an inode and an offset.
* **Crashes and restarts.** systemd starts the service again. What is committed
  stays; cursor and count are one transaction, status and cursor are not.
* **Files someone else writes.** The panel edits and reloads virtual hosts in
  the middle of a configuration run, which may fail or be killed at any file.
* **Two processes on one table.** The registry reads a site's rows before it
  opens the transaction that merges them. A migration reads the version before
  its transaction, too.
* **Several tables for one request**, each with its own key (minute, hour of
  UTC, local date), and pages that read them one SELECT after the other.
* **An update under a running system.** The new files are there before
  `install.sh` runs: requests and a restarted service run the new code on the
  data of the old one.
* **Answers in any order.** The dashboard's requests overtake one another, and
  timers ask for things the user has not asked for.

### What makes each component correct

* Queue: an event is in exactly one place; the events of a site settle in the
  order they came; shutdown drains; memory is bounded; counters tell the truth.
* Import: no line counted twice; without a race no line skipped; a site marked
  complete was read; an import ends, or is given up until the next restart after
  such a race.
* Service: one source at a time; a complete import is final; datagrams are
  discarded only while someone imports their log; every site gets imported,
  unless its import fails.
* Configuration: a failed run leaves no trace, a successful one leaves every
  site configured and loaded; no completed write on the way breaks a web server,
  except that the rollback takes away the nginx format first.
* Registry: one row per site, with its path; a merge keeps what it has read; no
  row the service records under disappears while one process synchronises at a
  time.
* Statistics: every table tells of the same requests; a sketch is that of the
  values of its hour, however they came; what a page shows adds up; the cleanup
  removes only what no period shows and no retention keeps.
* Settings and migration: an update loses no statistics, whichever of its steps
  is killed or fails, and one whose copy was whole and not overtaken by a
  request has them in use, with a backup; a salt that all agree on stays; a
  service that runs on uses the user's last choice, unless another process was
  about to write back the settings it had read when the user saved.
* Dashboard: in the end it shows what the user asked for last, or the overview
  after a repair, and is not left behind its loading sign.

## The modules

| Module | Models |
|---|---|
| `LiveLedger` | what the live counting path promises: each event accepted or refused once, settled once, in order per site, one site per transaction |
| `RealtimeQueue` | `core/realtime_queue.py`, producer and writer step by step; implements `LiveLedger` |
| `LogImport` | `collect_site()` and its callers for one site, with logrotate and the web server |
| `SocketServer` | the service: main loop, import thread, rounds of `run_history_backfill()`, restarts; uses `LiveLedger` for the queue |
| `ConfigSync` | `configure_all()` against the panel, and the order of steps in `install.sh` |
| `SiteRegistry` | the `sites` table and the two processes that synchronise it |
| `Sketch` | `core/hll.py`: registers, ranks, adding and merging, and what a sketch is meant to be |
| `Statistics` | `record_batch()`, `cleanup_details()`, and the queries of the pages, for one site; uses `Sketch` |
| `DataDirectory` | `config.json` and `stats.db` under `install.sh`, `init_db.py`, the service and the page: settings, migration, backup, update |
| `Dashboard` | `static/js/app.js`: the handlers that load pages, and their answers |
| `..._proofs` | theorems about the module of that name (`Statistics_proofs`: also about `Sketch`); all but `LiveLedger` have one |
| `MC...` | instances of the above for TLC |

Each specification begins with a block of *mutated forms*: definitions altered
the way a slip in the code would alter them. They are no part of the
specification; each is what one property is tested against (`mutants` in
`PROJECT.json`). In `SiteRegistry` and `ConfigSync` they stand before the
definition they alter, marked "Slip"; in the modules from `Statistics` on,
marked "Mutant".

`SocketServer` takes `LiveLedger` where the code calls `submit()`;
`RealtimeQueue` is shown, by TLC and by proof, to implement `LiveLedger`. The
service is therefore checked against what the queue promises, not against a
second model of it. `SocketServer` likewise reduces an access log to a sequence
that never rotates; what rotation does is in `LogImport`.

### RealtimeQueue

`items` is the `queue.Queue`, `pending` the batch, `producer` and `worker` the
program counters of the two threads. A step is what a thread does between two
points where the other can observe it: `submit()` is two steps (`SubmitPut`,
`SubmitCount`), because the writer can take and commit the event before
`accepted` is incremented; `stop()` is four (flag, wake-up item, join or
timeout, and, for the caller, the end of the process). `_flush()` is one step
per site, with `FlushFails` at any point between. `due` stands for the clock.
`committed`, `failed` and `refused` record where events went.

### LogImport

`dir` maps paths to inodes, `content` inodes to lines, `logging` is the file the
web server has open. `Rename` and `Reopen` are the two halves of a rotation;
`Truncate` is `copytruncate`. The import is `Begin`, `ClearCursor`,
`ListSources`, `OpenSource`, `CommitBatch`, `EndOfFile`, `Finish`, with
`StartAtEnd`, `NothingToRead` and `Missing` for the early exits. A history
import that misses a file is taken up by the next round only if other sites of
its job had lines; else the job is over, and only a restart (`Crash`) begins
another (`pc = "over"`): the service does not schedule a site twice. The
variable `fullHistory`, which no step changes, chooses between the history
import and the live mode of `scripts/collect.py`. `raced` remembers that the log
was rotated under a run, or that a file still needed was deleted: the properties
that rotation can break are stated for the other behaviours, and
`RotationLosesNothing` shows that it does break them.

### SocketServer

The environment adds sites, serves requests (a line on disk and, where the site
is forwarded and the service is up, a datagram), repairs the forwarding, and
runs another collector: `scripts/bootstrap_data.py` imports every missing site
under `collector.lock` (`OtherLocks`, `OtherReads`, `OtherCompletes`). Its
rounds are left open; it reads batches and completes sites in any order, and
ends at any point. The main thread is `Bind`, `Boot`, `Sync`/`SyncFails`,
`ReceiveLive`/`ReceiveSkipped`, `Stop`, `Exit`. For each datagram it reads the
published state twice, status first: a datagram can therefore be discarded
although the end of its import was published in between (`Discards`, `Counts`).
`Failing` names the kinds of failure an instance allows. The import thread has a
step for each assignment of the shared state (`Publish`, `Tag`), each batch,
each visit, and each status update. `Crash` and `Exit` drop everything that is
not in the database or the files.

### ConfigSync

`files` holds the content of every file, `loaded` what each server last loaded.
A run reads and writes one file per step, in the code's order: formats, then for
each site virtual host and extension, then the removal of what is stale, then
test and reload (Apache first, as the names sort), and, from any step, the
rollback. The panel adds, removes and edits sites and reloads in between; `Kill`
ends a run anywhere. `touched` and `reloaded` remember what others did during
the run, and exempt exactly those files. The lost update between the read and
the write of a virtual host is therefore in the model and outside the
properties; it is listed as a hazard. A virtual host can be left half written by
either pass (`TornVhost`); a file the rollback puts back is written in one step.
Which server a site belongs to is a constant (`Kind`), though discovery derives
it from the virtual hosts that exist (`core/site_discovery.py:35-41`): a panel
that switches its web server under the plugin is not in the model.

### SiteRegistry

`Init` ranges over every table of up to two rows that an earlier version can
have left: rows of no site, two rows of one site, paths with the semicolon of
their directive. A synchronisation is `Discover`, then `Lookup` and
`Update`/`Insert` per site, then `Retain`. `register_site()` is several steps,
since Python's sqlite3 begins the transaction at the first write: before it, the
code has read the rows of the site (`Lookup`) and the counts of the first row to
be merged (`ReadDuplicate`): other processes write in between. The counts of
further rows are read inside the transaction, so `Update` takes them from the
table. Of the merged tables the model keeps requests per minute (merged by
maximum) and cursors (by time). `Ascending` is the `ORDER BY id` of the rows a
synchronisation goes through, stated as the sequence it is, not as the way to
compute it: nothing can be proved about a recursive definition here.

### Sketch and Statistics

A value is its hash, of a few bits; its first bits choose a register, which
keeps the largest rank of the rest. `Of` is the reference: what a sketch of a
set of values is, without an order of adding. The estimate is reduced to the
number of registers in use, which decides whether it is zero.

The clock counts minutes; hours and days are short. The tables are functions
from their keys to counters. A kind of request has a status of one of three
classes: not an error, 400 to 599, and from 600 on, since the minutes and the
import's cutoff take the second for an error (`IsError`), the dimensions and the
cleanup both (`From400`). `Record` is one transaction: it groups the batch by
each key (`MinuteRows`, `SpiderRows`, `DimensionRows`, `SketchRows`), then
updates the rows that are there and inserts the others. `RecordLive` passes what
has just happened; `RecordImported` passes old requests in order and keeps in
full only those within the cutoffs of the moment its import began. `Reconfigure`
is a restart with a higher `hll_precision`: a batch for an hour with a sketch of
the old one can then not be recorded at all, because the merge raises inside the
transaction. A page is `Ask`, a `Select` per query, and `Leave`, at the end or
when the merge of two precisions raises. A ranking shows the largest values up
to its limit, and remembers whether it left any out (`cut`).

Hours are UTC's, in the code as in the model, and `Offset` moves the local dates
against them; in the run by half an hour, as in some zones, so that the window
of a period begins within an hour. `TypeOK` is proved, and not among the
properties of the run.

### DataDirectory

The story begins when the files of a new version are in place. `Init` ranges
over what a version may have left: nothing, the data inside the plugin's
directory, or the data outside, of an older, the same or a newer schema, with or
without statistics and finished imports, its service running or not. Each
process is a program counter and what it has read: settings (`Load`, `Store`),
version (`Open`) and then the migration on what it saw (`Migrate`), since the
version is read before the transaction. `install.sh` is `StopService`,
`LookForData`, `CopyStatistics` and `CopyConfig` in any order or not at all, and
`MarkExternal`, which asks nobody whether the copy was done; then `init_db.py`
with its `Backup`, and the start of the service. It can be killed between any
two of these steps, and run again. The copy of one file is one step, and leaves
the file whole or in a state that a failed or killed `cp` can leave: empty,
unreadable, or without what was in the write-ahead log. A `config.json` that was
cut off reads as defaults, as `load_config()` does. A backup is one step. A salt
is named after the process that made it, a choice after its number.

Four variables keep the history: `before`, the statistics when the service was
stopped first; `early`, a request or the service has opened them before
`init_db.py` did; `cut`, the copy failed or left the statistics out;
`overtaken`, the user saved while others were about to write. What holds without
exception is stated without them; what the code does in these cases is among the
statements TLC refutes (see Findings).

A request whose database is newer is not refused as a whole: the constructor
catches the error, and the repository it has already made stays in use
(`Refused`). `docs/DATA_MIGRATION.md` says it is refused; nothing the model
keeps depends on it.

### Dashboard

The variables carry the names of the page's `state`. Handlers are atomic;
`pending` holds the requests on their way, answered in any order. `wish` is what
the user asked for last, which only the user's actions set; `moved` says that
the timer of a repair has asked for the overview since, while the user was
somewhere else; `astray` marks the answers that the numbering does not cover,
which the code shows although a later request was made. `MayPoll` is the timer
of a running import, `AfterRepair` the one of a repair. `TypeOK` says what the
variables hold, and is not among the properties of its run.

## The runs

Every number of states is of distinct states, with two workers.

| Run | Configuration | States | Shows |
|---|---|---|---|
| `queue` | `RealtimeQueue.cfg` | 26 thousand | safety, liveness and refinement of the live queue |
| `log_import` | `LogImport.cfg` | 324 thousand | the import under rotation and crashes |
| `service` | `SocketServer.cfg` | 1.67 million | the safety of the service with a fault, a restart and another collector |
| `service_live` | `SocketServerLive.cfg` | 406 thousand | every site is imported in the end, across a restart and a failed configuration |
| `config` | `ConfigSync.cfg` | 893 thousand | rollback, success, reload, and which writes keep a configuration valid |
| `registry` | `SiteRegistry.cfg` | 1.71 million | the table matches the panel, a merge keeps what it has read |
| `statistics` | `Statistics.cfg` | 558 thousand | tables, sketches and retention, and the numbers of a page |
| `settings` | `DataDirectory.cfg` | 631 thousand | settings read, migrated and saved around an update |
| `upgrade` | `DataDirectoryUpdate.cfg` | 2.02 million | the statistics in an update that is killed, fails and is repeated |
| `dashboard` | `Dashboard.cfg` | 191 thousand | what the page shows in the end, and its loading sign |
| `log_rotation` | `LogImportRotation.cfg` | violation | finding 1 |
| `service_twice` | `SocketServerTwice.cfg` | violation | finding 2 |

### Bounds

* `queue`: two sites, three events, a queue and a batch of two. The queue fills
  (so submissions are refused, and `stop()` skips its wake-up item), a batch
  fills with an event left over, a batch mixes sites, and a flush fails between
  its two sites.
* `log_import`: six lines, three kept files, two rotations, two crashes, batches
  of two. A rotation can fall between any two steps of a run, the oldest file is
  deleted by the second one, and a file can end within a batch.
* `service`: two sites (interchangeable, hence the symmetry), two requests,
  batches of one, and one each of restart, fault and other collector. Two
  requests suffice for one to be on disk and one in flight, on the same site or
  on different ones; a round that runs out of budget leaves a second site.
* `service_live`: the same with a failing configuration as its only fault, since
  the sites of a failed import wait for a restart that nothing brings about;
  with no other collector, which has the same effect when it holds the lock; and
  with no symmetry, which TLC's liveness checking does not allow.
* `config`: one nginx and one Apache site, two ids (a site can go and come back
  with another id in the middle of a run), three steps of the panel, one error
  or kill. Nginx and Apache differ in validity, so both are needed; two sites of
  one server add no interaction, as their files are disjoint.
* `registry`: two panel sites, two logs and one misread path, three rows, one
  change of the panel or of the API, and one counted request besides those in
  the initial table. A site with two rows and an orphan at its path, the widest
  merge, needs three rows.
* `statistics`: days of two hours of two minutes, local dates three minutes
  ahead, which is a minute short of a day; a day of history before the first
  step and a midnight to come; requests of a visitor, of a spider that asks for
  what is not there, and of the visitor answered with a status from 600; two
  requests, alone or in one batch, which suffice for two kinds to meet in one
  row, sketch or batch, and for one to be read by one query and both by the
  next. The report's rankings have a limit of one value, so that two addresses
  exceed it; of the code's limits, 10 and 100, only that they can be exceeded
  matters. Hashes have three bits, sketches one or two. Visitor and spider share
  a register by address, with different ranks, and none by visitor. A period
  begins within an hour. The first minute passes out of the retention of
  ordinary requests, and no date out of that of errors or of the daily counters:
  that these go no earlier than they may is left to the proof. The pages read
  are the report, which has every query of the overview and of the rankings, and
  the spiders. The page of clients reads the daily table by other dimensions,
  which `TablesAgree` compares for every date. `Tick` waits for a page that is
  still read a day after the end of its window (`ReadInTime`): a request takes
  seconds, and over a longer one the cleanup would delete the first date of the
  longest period between two of its queries. In the run the clock ends before
  that, so that the bound leaves out none of its states.
* `settings` and `upgrade`: one request at a time, one crash, two updates. With
  the old service, the installer and systemd three processes open the same two
  files, and the crash can cut any of them; the second update repeats the first,
  after its end or after the crash. The statistics and the settings meet only in
  the order of the processes' steps, which both runs have in full, so that the
  first leaves out the sites and has two saves, the second has one site and no
  save: one run with both does not end in reasonable time.
* `dashboard`: two sites, two periods, the three special pages, one page of a
  site and the settings, four requests, one of them the first. Four suffice for
  a click, a poll and a repair to be on their way at once with the answers in
  any order.

The violations take smaller bounds than their neighbours: `service_twice` has
one site and no restart or fault, `log_rotation` one rotation.

`Dashboard.cfg` sets `CHECK_DEADLOCK FALSE`: with the bound on requests used up
there is nothing left to ask for. `LogImport.cfg` sets `CHECK_DEADLOCK FALSE`:
when the import is complete or over, and the bounds on lines and crashes are
used up, there is nothing left to do. So does `LogImportRotation.cfg`. The other
runs check deadlock.

### Fairness

* `RealtimeQueue!FairSpec`: the writer thread is scheduled, the clock advances,
  and the steps of `submit()` and `stop()` that have begun are finished. No
  fairness is assumed of the join's timeout, so `StopReturns` does not rest on
  it; nor of a failing flush, a new datagram or a stop.
* `LogImport!FairSpec`: the import thread runs, so that a run whose budget is
  spent is followed by the next round of its job, and the web server reopens its
  log after a rotation. A job that is over is not run again, as the service
  schedules no site twice (`socket_server.py:107-112`); a restart would, and
  nothing makes one happen. So `EventuallyComplete` says that a history import
  completes, or is over because a rotation took a file from under it. Crashes
  and spent budgets are not fair; progress comes from the batch each run commits
  before it tests its budget.
* `SocketServer!FairSpec`: both threads run; the synchronisation comes every 15
  seconds; a process that went down is started again (`Restart=always`,
  `RestartSec=2` in `webanalytics.service`); another collector ends and releases
  the lock. Configurations fail at most as often as the bound on failures
  allows.
* `DataDirectory!FairSpec`: systemd starts the service while it is wanted, and
  its loop runs (load the settings, migrate, load again with each
  synchronisation). Nothing is assumed of the installer, of requests, or of
  saves.
* `Dashboard!FairSpec`: every request is answered, or ends with its timeout of a
  minute, which the page treats as an answer. No click and no timer is fair.

Weak fairness is enough everywhere: none of these actions is enabled on and off
for ever by another one.

## Findings

1. **A rotation during an import skips lines** (`core/collector.py:255`,
   `:313`). The paths are listed once and opened later, and the cursor's inode
   is read from the path, not from the open file. After a rename between the two
   the import reads another file, or none, and reports the site complete.
   `docs/宝塔Linux插件开发规划.md:285` asks that rotation lose nothing and repeat
   nothing. It repeats nothing (`AtMostOnce` holds).
2. **A request is counted twice** (`scripts/socket_server.py:86`). The comment
   at `:187-188` makes the log the only source while its site is imported. Three
   ways lead around it: the state of the import is published in two assignments,
   and between them the site ids are missing; a new site's datagrams are counted
   until its import is scheduled (`:102`), and the import then reads the same
   requests; a datagram can wait in the socket until the import is over
   (`:165`).

TLC refutes more statements, which stay defined in their modules and have no
run. To see one refuted, put its name in place of the properties of one of its
module's configurations. Seven contradict what the repository says:

* `DataDirectory!StatisticsSurvive`: an open page makes an update drop the old
  statistics (`install.sh:20`). The data inside the plugin's directory is copied
  only while there is no `stats.db` outside, and any request of the page,
  running the new files, creates one (`WebAnalytics_main.py:107`).
  `docs/DATA_MIGRATION.md:20` says an upgrade keeps the statistics. The old
  directory is left as it was, but no later update looks at it, because of the
  marker.
* `DataDirectory!FailedCopyStops`: a failed copy does not stop the installation
  (`install.sh:21`). The result of `cp` is not looked at; the marker is set,
  part of the statistics or none is migrated, and the service is started.
  `docs/DATA_MIGRATION.md:23` says the installation fails. The old directory
  stays (`UpgradePreserves`).
* `DataDirectory!MigrationsBackedUp`: a migration without a backup
  (`WebAnalytics_main.py:108`). Only `init_db.py` makes backups, and every
  request of the page, and the service, migrates what it finds.
  `docs/DATA_MIGRATION.md:34` promises a backup before the structure is
  upgraded.
* `DataDirectory!SavedStays`: a saved setting is set back
  (`core/settings.py:127`). A load that replaces an old value or makes a salt
  writes back everything it read some time before. What the user saved in
  between is gone, although `WebAnalytics_main.py:449` has answered that the
  service will apply it.
* `SiteRegistry!NoCountLost`: a merge of two rows of a site can lose a batch
  (`core/repository.py:437`). The counts of the first duplicate are read before
  Python's sqlite3 opens the transaction, with the first statement that writes.
  A batch that another process commits under that row in between is not in what
  was read, and the row is deleted with it (`:508`). `CHANGELOG.md:155` says
  that minutes are kept in full.
* `Statistics!ErrorsAgree`: two ideas of an error (`core/repository.py:809`).
  The minutes count 400 to 599, the dimensions everything from 400.
  `core/parsers.py:18` accepts any status of three digits, so that a request
  with a status from 600 is an error in the rankings by address and URI and none
  in the overview. `README.md:170` defines one number.
* `ConfigSync!NothingLeftWhenUninstalled`: the service writes the forwarding
  back between its removal and the end of the service (`install.sh:103`),
  against `docs/宝塔Linux插件开发规划.md:133`.

The others are of no document, or halves of finding 2:
`SocketServer!SkippedIsImported` (datagrams are discarded until the whole job
ends, while each log is read only to its end at the time of the visit,
`scripts/socket_server.py:184`); `SiteRegistry!SyncSucceeds` (a log moves to a
path that the row of a removed site holds, `core/repository.py:535`, and each
synchronisation fails from then on); `Statistics!YesterdayIsOver` (yesterday
ends a second past midnight, `WebAnalytics_main.py:82-97`, so that its rankings
by date hold all of today); `ConfigSync!RollbackKeepsValid` (the rollback goes
in the order of the writes, `core/nginx_config.py:187`, so that it removes a new
format of nginx while virtual hosts still use it); `Dashboard!ShowsWish` (the
timer after a repair opens the overview, wherever the user has gone,
`app.js:867`); `SocketServer!DiskOnlyWhileImporting` and
`SocketServer!BeginsUncounted`, the ways of finding 2 one by one.

Further behaviours the models exhibit are listed under `hazards` in
`PROJECT.json`, with the reason where no run shows them: among them a run killed
between write and reload (no later run reloads, because no file differs), sites
of a failed import that wait for a restart, and rows that overlapping
synchronisations merge away under the service. Two behaviours came up in reading
and are outside the properties: a `config.json` that is there but cannot be
opened for a moment is taken for an empty one and overwritten with defaults and
a new salt (`core/settings.py:112`; in the model only a copy that was cut off is
unreadable), and the live queue keeps the settings of its start, so that a new
`queue_size` or salt reaches it with the next restart only.

## Proofs

Eight modules hold the theorems of eight specifications. Each is proved for all
values of the constants that satisfy the module's assumption: any set of sites,
any size of a queue, batch or history, any number of requests, rotations,
crashes, restarts or faults. An assumption asks only that bounds are numbers,
sizes are positive, functions have their types, and the value `None` is none of
the things it stands beside; where it asks more, the module's section below says
so. TLC evaluates every assumption in the runs, whose instances satisfy it.

The order of work was the same everywhere: the invariant was found and tested as
an invariant of the run, then proved by one lemma per action (or per group of
actions with the same effect) and per part of the invariant that it can disturb.
Each invariant is a conjunction of groups (types of the files, of the process,
...), so that a step that leaves a group's variables alone is done with that
group.

### RealtimeQueue

| Theorem | States |
|---|---|
| `TypeCorrect` | `Spec => []TypeOK` |
| `Conservation` | `Spec => []EachEventInOnePlace` |
| `InOrder` | `Spec => []SettledInOrder` |
| `Drained` | `Spec => []DrainedWhenDone` |
| `Bounded` | `Spec => []BoundedMemory` |
| `Accounting` | `Spec => []CountersAddUp` |
| `CleanMeansNoLoss` | `Spec => []CleanCountersMeanNoLoss` |
| `Refinement` | `Spec => ImplementsLedger` |

None of these properties is inductive. The proof goes through three invariants:

* `SafeInv` joins types, places and order with the control facts that keep the
  threads together: once the producer has passed its first step of `stop()` the
  flag is down (`FlagFollowsStop`); there is at most one wake-up item, and only
  after the flag (`OneWake`); and a writer at its final flush or past it has
  seen an empty queue with the flag down, so nothing can be added
  (`NearlyDone`). Order must be stated of the queue as a sequence (its ids
  increase) and of the three stages settled, pending and queued (each older than
  the next, per site): `SettledInOrder` alone says nothing of the queue.
* `MemoryInv` adds `BatchHasRoom`: a writer about to take an event has room for
  one. It holds because the batch is tested after each event.
* `CountInv` relates the counters to cardinalities. Its steps rest on lemmas on
  the cardinality of the set of queued events under `Append` and `Tail`, which
  need the items to be distinct, a part of `SafeInv`.

`Refinement` maps the initial state, and shows that each step under `SafeInv` is
a step of `LiveLedger` or leaves its variables unchanged (`LedgerStep`). That a
flush is a *prefix* of its site's open events is the order part of `SafeInv`;
that leaving the process loses what is open is the map's `Alive`.
`BoundedMemory` and `CleanCountersMeanNoLoss` are proved and no run checks them.

### LogImport

| Theorem | States |
|---|---|
| `TypeCorrect` | `Spec => []TypeOK` |
| `CountedAtMostOnce` | `Spec => []AtMostOnce` |
| `CountedPrefix` | without an old cursor, `Spec => []CountedIsPrefix` |
| `CompleteMeansListed` | without an old cursor, `Spec => []CompleteCoversListed` |

A batch is counted twice if a run reads what lies before the cursor. So the
invariant `ImportInv` orders everything: files along the paths (`DirShape`; a
file further back in the rotation is older, with one gap while a rotation is
half done), lines along the files (`ContentShape`), what is counted below the
cursor (`CursorCovers`), and below whatever the run has open or will still open
(`ReadAhead`). The last is the heart. The run keeps *paths*, and between the
listing and the opening of a path a rotation may put another file there; it
holds all the same because a rotation moves only newer files to a path.
`CursorPlaced` (a cursor whose file is gone is older than every file there is)
is what lets the code start at the beginning of the current log in that case.

That nothing is skipped needs `SteadyInv` on top, stated of the history import
while no rotation has raced a run: every line is in a file (`EveryLinePlaced`),
those not counted in a file that still has a path (`NothingGone`), the cursor is
exactly the end of the counted prefix (`CursorIsEnd`), the paths keep their
files during a run (`RunInPlace`), and every line not counted is ahead of the
run (`RunReadsAll`). Both theorems assume `~HasOldCursor`: a cursor left by an
older version may point anywhere, and TLC refutes both with one. The assumption
asks for two lines and two kept files at least, which a rotation needs.

`HistoryPaths` says which sequence the code returns and not how it computes it;
a lemma shows that there is exactly one.

### SocketServer

| Theorem | States |
|---|---|
| `TypeCorrect` | `Spec => []TypeOK` |
| `ImportedOnce` | `Spec => []NeverReimported` |
| `Deferred` | `Spec => []DeferredIsImported` |
| `CompleteCoversJob` | `Spec => []CompleteMeansAll` |
| `DiscardOnlyWhileImporting` | `Spec => []NoImportNoDiscard` |
| `Final` | `Spec => CompleteIsFinal` |

`ServerInv` has two halves. `Cursors`: a log holds each request once, every
datagram is of a request in the log, and what is imported is what lies below the
site's cursor, whichever process reads it (`Reads`, of the import thread and of
the other collector alike). `Rounds`: the import thread keeps each site of its
job until it is complete (`JobCovered`), visits no complete one
(`PendingIncomplete`), a site read to its end has imported what was deferred to
it (`DeferredReached`), and only the thread publishes that it runs, for its own
sites, and withdraws it before it ends (`PublishedByThread`). The other
collector may complete sites of a job while the thread waits for the lock; the
thread looks again once it has it (`Begin`). The queue behind the service is
`LiveLedger`, so the theorems hold of any implementation of it.

### ConfigSync

| Theorem | States |
|---|---|
| `TypeCorrect` | `Spec => []TypeOK` |
| `Rollback` | `Spec => []RollbackRestores` |
| `SuccessConfigures` | `Spec => []SuccessMeansConfigured` |
| `SuccessServes` | `Spec => []SuccessReloads` |
| `WritesKeepValid` | `Spec => StepsKeepValid` |

`BackedUp` says that during a run each file nobody else wrote has its original
either in place or among the saved ones, once: a rollback at any step restores
it. `SiteInv` follows the run through the files (the formats are there before a
virtual host refers to them, a virtual host was not written since it was read,
the sites behind the run are configured), `ReloadInv` relates what each server
has loaded to what the run changed. `StepsKeepValid` is an action property: it
needs of each write that the formats and extensions it refers to are already
there, or, when they go, that nothing refers to them any more. It holds of the
rollback as well, for a server whose files were accepted when the run began: the
order in which files were saved puts a virtual host back before its extension,
and a run never rewrites a virtual host that has its include line (`Order`). The
one exception is the format of nginx, while it is still to be put back
(`FormatPending`).

### SiteRegistry

| Theorem | States |
|---|---|
| `TypeCorrect` | `Spec => []TypeOK` |
| `CountsKept` | `Spec => HistoryKept` |
| `SettledMatches` | `Spec => []SettledMatchesPanel` |
| `MappedExist` | `Spec => []MappedRowsExist` |

Types carry `UniquePaths`, the `UNIQUE` index of the table, which every update
has to keep for the transaction to succeed, and that what was read of a
duplicate are counts (`ReadTypes`). `CountsKept` is proved from types alone, and
so holds however the two processes interleave: a merge takes the maximum of the
minutes it has read, and deletes a row only after that. What it has read of the
first duplicate may be out of date, and only the property says so (`Brought`);
without that exception TLC refutes it (`NoCountLost`). The other two are about a
synchronisation that runs alone (`SoloInv`): what it found is still so
(`FoundCurrent`), the panel has one log per site (`LogsApart`), each site it has
gone through has exactly one row, at its path (`RegisteredRows`), and the rows
it returns are the only ones of their sites (`ResultOnly`, `MappedOnly`). A site
may begin with any number of rows; the proof uses of `Ascending` that it names
each once, and of the merge that it leaves the first. Of the cleaning of a path
(`Trimmed`) the assumption asks that a second one changes nothing.

### DataDirectory

| Theorem | States |
|---|---|
| `TypeCorrect` | `Spec => []TypeOK` |
| `UpgradeKeeps` | `Spec => []UpgradePreserves` |
| `SettingsSettle` | `Spec => SettledStays` |
| `SaveKept` | `Spec => []` (not `overtaken` implies that the file holds the last choice) |

The assumption asks for a schema version above two (the code's is 7): version 0
stands for an empty file, and the initial states have databases of the version
before the current one. Types include that whoever is to write statistics has a
database of its version, and that a copy has something to copy. `UpgradeInv`
states where the old statistics are, for any number of updates and crashes.
Without exception: inside the plugin's directory they are as they were
(`Untouched`), and outside they only grow (`HereKept`). While nobody has opened
them too early and no copy has failed: before the marker there is no copy, or a
whole one nobody has opened (`NotYet`), after it they are outside (`Moved`), and
an old database is either still to be backed up and migrated, or has been
(`WaitingOrDone`). The exemptions of `UpgradePreserves` are those of the code:
`early` covers what refutes `StatisticsSurvive` and `MigrationsBackedUp`, so
that a migration by a request that leaves no backup is not claimed to be backed
up; `cut` covers what refutes `FailedCopyStops`.

`SettingsSettle` is an action property of all states in which the processes
agree; its invariant is that no process holds a choice that was never saved
(`ChoicesSaved`). `SaveKept` (theorem: as long as no save came while others were
about to write, the file holds the last save) is what `SettingsApplied` rests
on, and rests on `LastChoice`: whoever is about to write back settings holds the
last choice.

### Dashboard

| Theorem | States |
|---|---|
| `TypeCorrect` | types, and that no request is numbered ahead of the counter |
| `PageSettles` | `Spec => []Settles` |

`Settles` speaks of states without a request on its way; the invariant must
speak of all. `DashboardInv` orders the requests (`Orders`, `Numbers`: the
overview's request with the current number is the latest of all that take one)
and says of the latest request that it asks for what is wanted and will take the
loading sign away (`LastAsks`), and, once it is answered, that the page shows it
(`LastShown`). What is wanted (`Wanted`) is the user's last wish, or the
overview, if the timer of a repair came after it (`moved`): the code does move
the user there. The answers the numbering does not cover (`astray`) are
excluded, as in `Settles`.

### Statistics and Sketch

| Theorem | States |
|---|---|
| `MergeOf` | `Merge(Of(p, G), Of(p, H)) = Of(p, G \cup H)` |
| `AddAllOf` | `AddAll(p, H) = Of(p, H)` for finite `H` |
| `TypeCorrect` | `Spec => []TypeOK` |
| `OneStory` | `Spec => []TablesAgree` |
| `SketchesOfTheirHours` | `Spec => []SketchesExact` |
| `DetailsStay` | `Spec => []DetailsKept` |
| `PagesFit` | `Spec => []PagesAddUp` |
| `CountedOnce` | `Spec => []VisitorsCountedOnce` |

The tables are sums and the sketches are folds, and a fold is a recursive
function that the prover cannot do induction over. The proofs go around it: a
closed form is shown to satisfy the fold's equation (for a sum, the number of
pairs of a key and a unit of its value, `SumIsUnits`; for a sketch, the maximum
of the ranks, `AddAllOf`), and two functions that satisfy it agree, since there
is no smallest set on which they differ (`SubsetInduction`, from the
well-foundedness of the numbers). From the laws of sums follow what a batch adds
to each table (`MinuteRowsIs`, `SpiderRowsIs`, `DimensionRowsIs`,
`SketchRowsIs`: one lemma for each way to group it) and what the addition of two
tables does to the total of some of their rows (`PartAdded`).

The invariant `StatisticsInv` differs from the properties in what makes them
inductive. The daily rows agree with the minutes also on dates that have no
minute yet, else the first request of a date might find rows of others
(`DatesAgree`). In errors they agree up to the requests of the date with a
status from 600, exactly (`BeyondOf`): that is what the two tests of the code
differ in, and `TablesAgree` says no more. Every recorded event has its two
sketches, else a batch might begin a sketch that lacks earlier values
(`SketchesInv`). And an event that is still young has been kept by whichever
cutoff it met, which depends on the clock only forwards (`YoungStays`): the
cutoffs of an import are those of its beginning, before the present, and the
cleanup's are the present's.

`PagesAddUp` speaks of pages that have all their answers; `PageInv`, on top of
`StatisticsInv`, speaks of every moment between two of their queries. A number
that was read is at most what the same query would read now, and equal to it
while nothing is recorded (`NumbersInv`): a batch only adds (`CurrentGrows`),
and the cleanup leaves every date of the window (`WindowInv`, with the bound
`ReadInTime`). A ranking shows at most what its values add up to, and all of it
while there are no more values than its limit (`RankingFits`, `Whole`). So the
next answer, read now, is at least each that it is compared with, provided that
one was asked before (`ReaderInv`: of two queries that are compared, the code
asks the smaller first). What is left to show is that two queries agree when
read at one moment (`CurrentPairs`): the buckets of a trend hold every minute of
the window (`BucketShown`), and the daily rows from the first to the last date
add up to the minutes of these dates (`DatesTogether`, from `DatesAgree` and the
laws of sums). Those are at least the minutes of the window, and just those as
long as no minute lies after it (`PastInv`, `WindowIs`), which is where
yesterday's rankings fail.

That requests come with visitors needs a distinct count to be positive
(`SomebodyThere`). Merging the sketches of the hours makes the sketch of all
their values (`MergedIs`, by the closed form of the fold), so that the count is
taken of them together (`DistinctIs`, from which `CountedOnce` follows too); and
the register of a value is in use (`EstimatePositive`), because its number is
within the sketch and its rank is at least one. Both rest on powers of two,
which the prover knows nothing of: `2^n` is counted as the subsets of a set of
`n` elements (`PowerIs`), from which it grows with `n` and turns sums into
products (`PowerGrows`, `PowerOfSum`).

### Only model-checked

* Liveness (`EventuallySettled`, `StopReturns`, `EventuallyComplete`,
  `EverySiteImported`, `SettingsApplied`, `LoadingEnds`): fairness and `ENABLED`
  are beyond the prover.
* The two violations, which are single behaviours.

## Not modelled

* How discovery finds a log path in a virtual host, the log formats, datagram
  decoding, how a URL or an agent is classified, address lookup: functions of a
  text without state. `Statistics` takes their results as constants.
* Parsing, filters and compressed archives in `LogImport`: every line counts.
* In `Statistics`: bytes (they are added as the requests are), the list of
  requests with its search and the export, the tables of other sites, and the
  number a sketch estimates, which is floating-point arithmetic.
* In `DataDirectory`: columns and indexes, the conversion of the exact counts of
  version 0.2.x, and the values of the settings beyond the three that show who
  overwrote whom. A `config.json` that is whole but cannot be opened is left
  out; so is a second installer at the same time.
* In `Dashboard`: drawing, sorting, searching and the numbers of pages of lists.
* `install.sh`: permissions, packages and unit files; the diagnostics of the
  plugin API.

Abstractions that matter to a reader of the properties: a virtual host can be
left half written (`write_text()` truncates it first; `TornVhost`), the small
extension and format files are written in one step; `config.json` is replaced in
one step, as the code does; in `SocketServer` a request is counted at once when
it is accepted into the queue; discovery is atomic, and fails as a whole, to an
empty list, as the code does; a batch is one transaction, which SQLite in WAL
mode provides.

## Plan

1. Done: every component of the first table is modelled, with the exceptions
   above.
2. Done: every safety property of the runs, every action property and the
   refinement are proved. What is left to TLC is liveness, and the violations.
