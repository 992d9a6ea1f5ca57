# A verification development of stonex-ops

stonex-ops is an MCP server and a small command line tool for operators: it
runs readonly SQL, starts active probes through the `stonx` binary, publishes
connection alerts to Feishu, and is deployed to its hosts by two workflows.
This directory holds TLA+ modules of the parts of it that are hard to test,
the configurations that check them with TLC, and proofs checked by TLAPS.

Paths below are relative to the repository; `stonex_ops/` is abbreviated to
nothing when a file is named alone (`server.py`, `db.py`, ...).

## Contents

| Module | What it is |
|---|---|
| `CallPool.tla` | abstract specification: what the server promises about tool calls |
| `ToolServer.tla` | the `call_tool` handler of `server.py`, `execute()` of `executor.py`, the whitelist and the audit record |
| `ToolServerProofs.tla` | its invariants and its refinements of `CallPool` and `QueryWait`, proved |
| `Notification.tla` | abstract specification: what a publish promises whoever asks for it |
| `FeishuPublish.tla` | `run()` of `tools/notification_publish.py`, the token cache and the Feishu client |
| `FeishuPublishProofs.tla` | what the cache and the report guarantee, that a plan is complete, and the refinement of `Notification`, proved |
| `ReadonlyRole.tla` | abstract specification: what the readonly role is to those who log in as it |
| `BootstrapRole.tla` | `bootstrap_readonly_role` of `db.py` beside the application's migrations |
| `BootstrapRoleProofs.tla` | what a broken-off, repeated or doubled bootstrap guarantees, and the refinement of `ReadonlyRole`, proved |
| `Rollout.tla` | abstract specification: what deployments promise those who use the entry point meanwhile |
| `Deploy.tla` | the deploying jobs of `deploy-main.yml` and `deploy-demo.yml`, the host they change and the queue they wait in |
| `DeployProofs.tla` | what they guarantee for the live release, and the refinement of `Rollout`, proved |
| `QueryWait.tla` | abstract specification: what a database call is to the handler that awaits it |
| `ReadonlySession.tla` | `execute_sql` and `inspect_schema` of `db.py`: connections, statements, result sets, calls that give up |
| `ReadonlySessionProofs.tla` | its invariants and its refinement of `QueryWait`, proved |
| `Alerting.tla` | the crontab, those who edit it, and `_run_alert` as cron starts it |
| `AlertingProofs.tla` | that the crontab stays whole, and what an exit code 0 tells, proved |
| `HostCheck.tla` | `run_doctor` beside the start of the server it vouches for |
| `HostCheckProofs.tla` | what its verdict is worth and that it changes nothing, proved |
| `Redaction.tla` | `redact()` of `redaction.py` on results that share parts |
| `RedactionProofs.tla` | that it is complete and touches nothing else, proved |
| `MC*.tla`, `MC*.cfg` | finite instances for TLC |

`PROJECT.json` lists the runs, which lines of the code every definition
stands for, the mutants that show each property to bite, the hazards, and the
places where code and documentation disagree. A run is repeated with
`tlc -config MCToolServer.cfg MCToolServer`, a proof with
`tlapm ToolServerProofs.tla`.

## Inventory

### MCP tool server (`server.py`)
*State*: one `ServerState`: the semaphore of `MAX_CONCURRENT_CALLS` = 3
permits, the readonly database URL resolved once at startup (or none), the
audit logger; and for each call the await it is suspended at.
*Operations*: `list_tools` (a constant), `call_tool`: refuse when the semaphore
is locked, else acquire it, validate, dispatch to one of five tools, redact,
answer, and in `finally` write an audit record.
*Interacts with*: the executor, SQL sessions and the publish (awaited calls),
the audit log (a call), the MCP library (answers, cancellation).
*Hard*: interleaving at every await; cancellation, which is not an `Exception`;
an audit write that raises in `finally`; the limit of the pool.
*Correct when*: no permit is lost or made up, every call is answered once,
whoever gets a handler's answer finds its record, and admitted calls settle.

### Subprocess executor and whitelist (`executor.py`, `whitelist.py`, `tools/env_check.py`, `tools/probe_connections.py`)
*State*: the child process of a call. *Operations*: validate, start under a
timeout, wait for the output under a timeout, kill and reap; the tools turn
the outcome into a result or an exception.
*Hard*: the timer against the exit; cancellation while a child runs; output
that is no JSON. *Correct when*: a child that runs is somebody's to kill, there
are never more of them than permits, and errors name the party at fault.

### Audit log (`audit.py`)
*State*: an append-only file and stderr. *Operations*: opening the file when
the server starts (in `HostCheck`), `log` (in `ToolServer`), `close` (which
nothing calls). *Hard*: failing writes. *Correct when*: one record per answered
call, with the status of the answer.

### Notification publish (`tools/notification_publish.py`, `channels/feishu/client.py`, `channels/feishu/card.py`)
*State*: `_token_cache`, shared by all publishes of the process; for each
publish its credentials, token, position and the report. *Operations*: load
credentials from `ops.feishu_connections` or the environment, triage the
connections, get a token from the cache or Feishu, send one card per problem
shop and target with three attempts, report.
*Hard*: concurrent cache misses; `now_ts` read before an await and stored after
it; lost answers and retries; the untimed lookup. *Correct when*: tokens are the
app's own and young enough, the report is true, and the publish returns.

### Readonly role bootstrap (`db.py`, command `bootstrap-readonly-db` of `__main__.py`)
*State*: in PostgreSQL: the role, its settings, its grants and default
privileges; no transaction holds the statements together. *Operations*: list
the schemas, create the role if it is missing, alter it, grant, verify as the
role itself. *Hard*: runs that break off between statements, that are repeated
by the next deployment or overlap; migrations that create and drop tables and
schemas meanwhile. *Correct when*: nothing is granted to a role that may write,
and success means that what it lists is and stays visible.

### Readonly SQL session (`db.py`, `tools/db_schema.py`, `tools/sql_readonly.py`)
*State*: of a call, a connection, a cursor and the result sets read so far; at
PostgreSQL, the statement it runs. *Operations*: connect, set
`statement_timeout`, execute, fetch `max_rows + 1` rows of every result set,
close; `inspect_schema` does so once or three times, each time over a
connection of its own. Every await but `close` is under a timeout of 5 s, after
which psycopg still awaits the statement it has asked PostgreSQL to cancel.
*Hard*: a timeout, an error or a cancellation between any two steps; a statement
whose caller has given up; truncation at exactly `max_rows`; a table that changes
between the three queries. *Correct when*: no connection outlives its call, no
statement is sent before the limit is set, a result is exact, and a call ends.

### Output redaction (`redaction.py`)
*State*: the result it walks, in place. *Operations*: `redact`, and
`_collect_current_result_set`, which masks columns by their names. *Hard*: parts
of a result are shared: `execute_sql` puts the lists of its first result set
under its own keys as well; a deep result ends the walk with `RecursionError`.
*Correct when*: nothing under a sensitive key is sent, and the rest is.

### Alert command and crontab (`__main__.py`, `scripts/setup-alert-cron.sh`, the last step of `deploy-main.yml`)
*State*: the crontab, and each editor's copy of it. *Operations*: read, filter,
append and install the crontab; probe, publish, exit. *Interacts with*: cron,
which starts a command every hour whatever became of the last one and sees only
its exit code; the publish; whoever else edits the crontab. *Hard*: edits without a
lock, a `crontab -l` whose failure looks like an empty crontab, failures that
nobody retries but the next hour's command, commands that hang. *Correct when*:
there is one alert line and other jobs stay, an exit code 0 can be trusted, and a
problem that lasts is told.

### Doctor (`doctor.py`)
*State*: the verdict so far. *Operations*: a chain of checks that gates a
deployment; the check of the audit file may create it and remove it again. *Hard*:
between two system calls the host changes, or a server opens the file.
*Correct when*: what it passes starts, and it changes nothing.

### Deployment (`.github/workflows/deploy-main.yml`, `deploy-demo.yml`, `scripts/setup-alert-cron.sh`)
*State*: on the host: release directories, the symlink `current`, the entry
point, the crontab. *Operations*: upload and unpack, bootstrap, smoke, save the
previous release, switch, smoke again, install the crontab, two rollbacks.
*Hard*: failure between any two steps, re-running the workflow of the live
release, a first deployment, main moving while demo is deployed. *Interacts
with*: GitHub, which queues, cancels and repeats runs; the bootstrap and doctor,
which it starts on the host; cron. *Correct when*: `current` always points to a
whole and smoked release, a rollback restores what was live, a green run is
live, and demo follows main and never goes back.

### The rest
`scripts/push-discord.sh` posts a report in chunks, one after the other, and
stops at the first error. `channels/feishu/card.py` lays out a card: a pure
function without a branch worth a property. The pull request workflow,
packaging, Nix files and tests hold no state of the program. None of these is
modelled.

## How the models correspond to the code

### ToolServer
The server is one asyncio event loop. Between two awaits a handler runs alone,
so an action goes from one await to the next, and whatever lies between (an
exception, the `finally` block, the release of the semaphore) belongs to it.
In particular nothing is awaited between `locked()` and the acquisition, which
never blocks: `Admit` and `Refuse` are each one step.

| Variable | Code |
|---|---|
| `request` | `name` and `arguments` of a call, reduced to what the dispatch tells apart |
| `phase` | the await a call is suspended at: `starting` and `running` are the two `wait_for` of `execute()`, `reaping` the `proc.wait()` after the kill, `querying` a SQL session, `lookup` the credentials of a publish, `sending` its requests to Feishu |
| `child` | the stonx process: `killed` until it is reaped |
| `permits` | `asyncio.Semaphore._value` |
| `audit` | the records that reached the log |
| `reply` | what the client got; `sdk_error` is an exception that left the handler |
| `dbUrl` | whether a readonly URL was resolved at startup |

`Conclude` is the `finally` block with what follows: the record is written and
the answer goes out, or (`AuditCanFail`) `log()` raises, before or after the
line reached the file, and its error replaces the answer. `Settle` adds the
permit that `async with` gives back. `Cancel` is `CancelledError` at the
current await. `OrphanEnds` is a child nobody waits for. Every other action has
the name of what ends an await. `Idle` lets a session that is done stutter, so
that TLC still reports a real deadlock.

`CallPool` is the same system without children, tools and semaphore: sets of
calls in flight, refused, answered and failed, and a ledger. `ToolServer`
implements it under the mapping in `Pool`.

`QueryWait` is the interface to `ReadonlySession` (see there). `CountsOnQueryWait`
says that the handler uses a database call just so: in the mapping `Query` the
calls that never reach the database stay idle, and a call whose audit record
could not be written has ended like one that failed. A query may end with any of
the handler's answers: the handler takes every `ValueError` for a fault of the
arguments, also one that loading the rows raises.

### FeishuPublish
Again one event loop, so one action per stretch between awaits. `phase` is the
await of a publish, with `asking` and `answered` for the token request before
and after Feishu has issued the token, because another publish may fill the
cache in between. `asked` is `now_ts`. `cache` is `_token_cache`. `attempts`,
`copies` and `report` are kept per card: requests made, requests Feishu
accepted, and the entry of `delivered`. A card request that fails may have been
accepted: the answer was lost. `Cancel` may lose an accepted card in the same
way. The wall clock is `now`; `Tick` advances it, but not past the timeout of a
token request.

Two assumptions are about Feishu and the network: a token is good for `TTL`
from the time it is issued (the code ignores the `expire` Feishu sends), and a
token request takes less than `TTL` (httpx gives up within seconds, `TTL` is an
hour). A revoked token and a clock that steps back are not modelled.

`Cancel` is any exception that leaves `run()`, also one that making the card of a
second shop raises after the first shop's cards are out.

`Notification` is what the callers, the handler of `server.py` and the alert
command, may count on. It knows recipients (a problem shop and a target), whom of
them a publish was to tell, has told and claims to have told, but neither tokens
nor cards, retries or the order of sending. In the mapping `Promise`, `wanted` is
computed from the connections and targets alone (`Wanted`), `told` from the
copies Feishu accepted, and `claims` from the report: that the plan has a card
for exactly the wanted is part of what the refinement shows.

### BootstrapRole
One action per statement of `bootstrap_readonly_role`, `pc` being the next one;
`select current_database()` has no effect and is part of `GrantConnect`, and
the three statements of the verification are one action because each only
reads. `Breaks` is any statement that raises, a lost connection or a killed
process; the command then exits with 1 and the next deployment runs it again,
which is another member of `Runs`. PostgreSQL is modelled by what a statement
does to `role`, `usage`, `select` and `defaults`, and migrations by what they
do to schemas and tables. A run uses the application's own URL
(`database_url_from_config`), so its default privileges are those of the user
who creates the tables. `known` records the tables that existed at the listing
and still do; it is not in the code and only serves the properties.

`ReadonlyRole` is the same role as the SQL tools and the doctor see it: is it
read-only, and which tables does it see? There are no runs in it, so that
`BootstrapRole` implements it says that a repair goes unnoticed by whoever works
as the role meanwhile, but for tables that appear.

### Deploy
One action per step of a job, or per command of a step where a failure between
two commands matters: `Prepare`, `Clean` and `Unpack` are the upload, `Link` and
`LinkEntry` the switch, `Relink`, `RelinkEntry` and `Remove` the rollback. The
two workflows are one module, each with a host of its own; where they differ
(the guards and the missing crontab of demo) an action looks at `workflow`.

| Variable | Code |
|---|---|
| `head` | the newest tag, or the head of main: releases are numbered as they are pushed |
| `pending`, `running` | who waits for and who has the concurrency group |
| `step` | the step, or the command in it, that comes next; `discard` is the removal after a failed smoke, `remove` the one that ends a rollback |
| `prev` | `steps.prev.outputs.prev`; None is the empty string |
| `result` | how a run ended: `skipped` by the guard, `reverted` when a rollback went through, `blind` when `git ls-remote` failed and the guard saw no head |
| `disk` | the release directories; `broken` has part of the files |
| `current`, `entry`, `alerting` | the two links and the line in the crontab |

`Fails` is a step that fails, with the `if:` conditions of the two rollbacks;
`Cancel` is a cancelled run or a lost runner, after which `failure()` is not
true and nothing is rolled back. The guards read the head with a pipe whose
status is awk's, so a failed `git ls-remote` is no failure: that is `blind`.
`smoked` and `before` are history, for the properties.

GitHub is external: one run at a time, one more waits, a newer one takes its
place (`Push`). `Rerun` is an operator who repeats a run when nothing waits;
with `RedeployLive` false, only when nothing runs either and not for the live
release. That is the assumption of `LiveIntact` and `RevertRestores`, and the
run `redeploy_live` shows that it is needed. `ln -sfn` counts as one step, a
command on the host ends when its connection does, a tag is pushed once, and
nobody else changes the host.

`Rollout` is a deployment as those see it who start `stonex-ops` through the entry
point: a live release, the one a switch has replaced and may yet go back to, and
the usable ones. Runs, steps and queues are gone; in the mapping the fallback is
`prev` while `current` is the release that is being deployed.

### ReadonlySession and QueryWait
`pc` is the await a call is suspended at, and an action goes from one to the
next. `conn` is the connection of the call, `work` the limit under which its
statement runs at PostgreSQL: the two part when a call is over before its
statement is. A timer or a cancellation does not end an await by itself.
`TimerFires` and `Cancel` only say why it is given up (`givenUp`): psycopg then
asks PostgreSQL to cancel the statement and awaits what becomes of it, with no
timer, and `wait_for` waits for psycopg. `Abandons` is the end of that, with the
statement gone or left behind; `LeftoverEnds` ends what is left. `Raises` is an
error of any kind at an await, answered as an error of the execution or, if it is a
`ValueError`, of the arguments. The SQL of a caller is sent as it is, possibly
several statements, of which one may set `statement_timeout` (`lifts`); then
`LiftsLimit` takes the limit off those behind it.

`close()` of psycopg has nothing to wait for and belongs to the step before it
(`Conclude`). A SQL result is `sets`, the number of rows of each result set or
`NoRows`; `Collected` is `fetchmany(max_rows + 1)` and the slice. Results without
rows need no await and are collected with the one before (`Collects`). `parts`
holds, for each catalog query so far, the version of the inspected table it saw.

`max_rows` is in range because the server has checked it before (`ToolServer`).
`wait_for` does not lose a connection that arrives with the timeout: the
package requires a Python whose `wait_for` returns it. Time is not measured: how
long a call takes is bounded by nothing in the code.

`QueryWait` is what `ToolServer` takes for granted when it models a database
call as one await in phase `querying` that ends (`QueryEnds`): it begins once,
ends once, with one answer, and is not begun again, so the SQL of a call runs at
most once. `EndsLikeOneWait` says that `ReadonlySession` implements it, with its
fairness.

### Alerting
`copies` is what an editor, the script or the deployment, has read of the
crontab: `crontab -l || true` leaves an empty copy when the read fails. `Install`
filters the copy and replaces the crontab by it. Both are bags of lines: how many
of each there are matters, their order does not, to cron or to the filter. A line is reduced to whether it is
the default tenant's alert line, with or without `FEISHU_CHAT_ID`, or another job.
`run` has a record for each alert command cron still counts on; one that
hangs in the untimed credentials lookup leaves it, since nothing waits for it. A
command sees `FeishuPublish` from outside: it cannot publish
(`Unpublishable`), gets no token or cannot make its first card (`TokenFails`), goes
through its cards, of which some or none are accepted (`Published`), or is left by
an exception after some of them (`Raises`): what `Notification` allows. `run()` leaves out data
sources with a configuration error; `shops` is `unconfigured` when no other data
source has a problem, and the command then exits with 0 and without a card
(`Publishable`) or, when no data source is left, with 1 (`Unpublishable`). `kept`
and `alerted` are history.

### HostCheck
The host is external: binary, database URL, database, the operator's name,
directory and file. What `os.access` calls writable need not take a file: the
audit file's path may be a directory, and a directory may be `full`, which stands
for whatever keeps a new file out of it (no space, no inodes, a path that is a link
to nowhere). The checks before the audit file only read one thing each and are one action with an
alternative for each; those of the audit file are one action per system call,
because what one of them finds may be stale at the next. `Open` and `Serve` are
`run_mcp_server`: the logger looks up the name of the user if no operator is given
and opens the file, the URL is resolved once. `HostChanges` is anybody else. `fresh` and `vouched` are history: has the
host stayed as it was since the doctor began, and had a doctor passed it when
the server started?

### Redaction
A result is a graph of dicts and lists, `heap`, in which a node may be below
several others. `Visit` is one call of `redact`; `todo` holds the nodes it will
be called on, in any order. `Raise` is the walk that ends with an exception.
Which keys are sensitive is a constant: `is_sensitive_key` compares strings and
is not modelled character by character.

## Runs

| Run | Instance | What it shows |
|---|---|---|
| `tool_server` | 3 calls, 2 permits, 9 requests (one for each path), audit writes may fail; 800 thousand states | six invariants, and the refinements of `CallPool` and `QueryWait` |
| `tool_server_live` | 3 calls, 2 permits, one request for each kind of wait; 244 thousand states | admitted calls settle, permits return |
| `feishu_cache` | 3 publishes, 2 apps, `TTL` 2, `RequestTime` 1, clock to 3, one attempt; 2.9 million states | own, honest and young tokens |
| `feishu_send` | 1 publish, 8 jobs of up to 4 cards, 3 attempts, time stands still; 66 thousand states | the report is true, the publish returns, and the refinement of `Notification` |
| `bootstrap_role` | 2 runs, 2 schemas, 3 tables; 725 thousand states | read-only first, success covers the known and the future tables, one creator, and the refinement of `ReadonlyRole` |
| `deploy` | 3 releases, either workflow, runs repeated but not that of the live release; 61 thousand states | the live release is intact, success is live, a rollback restores, demo does not go back, and follows main; the refinement of `Rollout` |
| `redeploy_live` | 2 releases, the live one may be deployed again | violated: see Findings |
| `readonly_session` | 1 call, 9 jobs (one for each path and each side of `max_rows`, one that lifts its limit), 3 migrations; 6.7 thousand states | four invariants, the end of what is left behind, and the refinement of `QueryWait` |
| `alerting` | 2 editors, 1 command, 2 other jobs, nobody to tell but the chat of the line; 149 thousand states | the crontab is whole, an exit code 0 is true, a lasting problem is told |
| `host_check` | every host, every order of changes, no bound; 97 thousand states | a passed doctor is followed by a start but for three causes, and the doctor changes nothing |
| `redaction` | every graph of 3 nodes and 3 labels, one of them sensitive; 90 thousand states | nothing leaks, nothing else changes |
| `cancel_leaves_child` | 2 calls, 1 permit | violated: see Findings |

Why these bounds are enough to be interesting. Three calls on two permits is
the least in which a call is refused while two others overlap and a permit then
moves on to a new call; the number 3 of the code adds nothing but states, and
the proofs hold for every number. Three publishes let two misses of one app
overlap while a third one uses what they leave; a clock to 3 with a `TTL` of 2
lets an entry be young, of exactly the age `TTL` - 1, and too old. Two runs, one
schema of two tables and one of one let a run break off inside the loop and
another pass it. Three releases are one live, one that runs and one that waits
or moves the head; the proofs hold for every number. Calls of `ReadonlySession` share
nothing but the catalog, so one is enough there; three migrations are one before each of two later queries
and one to spare. Two editors are enough to overwrite each other, and two jobs for one to be lost while the other stays. `feishu_send`
has a job of two shops and two targets, the least that tells a plan of all pairs from one that only pairs them up; tokens and
their age are the question of `feishu_cache`, so its clock stands still. Alert commands
share only what they observe, and one that hangs makes room for the next, so a
second at a time adds nothing but states; `TrueExit` is proved for any number.
Three nodes are the least with one that is reached by two ways, one of them
through a redacted dict. The sets of requests and jobs hold one element for every
branch of the code. Symmetry is used on calls, publishes and runs, and only in
runs without liveness properties. `redaction` does not look for deadlocks, because an
answer is the end of it.

## Fairness

`ToolServer!Fairness` and `FeishuPublish!Fairness` assume only what the code
itself sets a timer for or the event loop does: a child starts or fails to
(`wait_for`), the timer of a running child fires if the child does not exit,
a killed child is reaped (SIGKILL and the child watcher), a SQL session ends
(`_with_timeout`, `statement_timeout`), a request to Feishu ends (httpx times
out by default) and `asyncio.sleep` wakes up. Nothing makes a child exit on its
own, a client cancel, or the credentials lookup end: it has no timeout, so
`AdmittedSettle` and `PermitsReturn` except it by name, and `PublishReturns`
begins after it.

`ReadonlySession!Fairness` is what discharges the session's part of that: the
timer of an await fires (`_with_timeout`), an await that was given up ends, and
PostgreSQL ends a statement that is over its limit. The second is psycopg's and
PostgreSQL's: psycopg sends a cancel request and awaits the statement without a
timer, and PostgreSQL ends a statement it is asked to cancel, or the connection is
lost and TCP notices. SQL that traps its own cancellation, or a server that is
stopped while its connection stays up, is outside of it; `WF_vars(QueryEnds(c))` of
`ToolServer` and with it `AdmittedSettle` and `PermitsReturn` lean on the same. Nothing
makes PostgreSQL answer.

`Alerting!Fairness` is cron's and the services': a command is started again
and again while there is a line, and no await is for ever, a hang included
because the hung process does not hold up cron (weak fairness of `Alert`); a
probe, a lookup, a token request and a card that are tried again and again
succeed sometimes (strong fairness: they may fail any number of times before,
exceptions included, but not for ever: what the probe says of a connection is
mostly text a card can be made of). Without that no alert could be promised. Editors owe nothing.

`Deploy!Fairness` is GitHub's: a waiting run gets a free group, and a run does
not stay at a step for ever, because a job has a time limit that cancels it
(`Cancel` is a step of `Run`). Neither pushes nor steps that succeed are assumed.
`HeadLands` therefore excepts, by name, a newest run that fails, is cancelled
or is blind; what it rules out is a newest run that never starts, or is skipped
as stale.

## Proofs

TLAPS proves, for any number of calls, permits, publishes, apps, runs,
schemas, tables, releases, database calls, alert commands and nodes of a result:

| Theorem | Says |
|---|---|
| `TypeCorrect` of `ToolServerProofs`, `PermitsCount`, `SettledReplied`, `Audited`, `Supervised`, `Bounded` | the six invariants of `tool_server` |
| `Implements`, `QueriesAsPromised` | `ToolServer` implements `CallPool`, and `QueryWait` for the database calls |
| `OwnTokens`, `HonestCache`, `YoungTokens` | the three properties of `feishu_cache` |
| `TypeCorrect` of `FeishuPublishProofs`, `TrueReport` | the typing, and the invariant of `feishu_send` |
| `PromiseKept` | `FeishuPublish` implements `Notification` |
| `TypeCorrect` of `BootstrapRoleProofs`, `ReadOnly`, `Repairs`, `CreatedOnce` | the typing, and the three invariants of `bootstrap_role` |
| `CoversFuture` | its property `SuccessCoversFuture` |
| `RoleKept` | `BootstrapRole` implements `ReadonlyRole` |
| `TypeCorrect` of `DeployProofs`, `DemoMovesOn` | the typing and `NeverBackwards`, without restriction |
| `LiveStays`, `SuccessDeploys`, `RevertKeeps` | `LiveIntact`, `SuccessIsLive` and `RevertRestores`, assuming `~RedeployLive` |
| `RolloutKept` | `Deploy` implements `Rollout`, assuming `~RedeployLive` |
| `TypeCorrect` of `ReadonlySessionProofs`, `Closed`, `Limited`, `Exact`, `Whole` | the typing, and the four invariants of `readonly_session` |
| `OneWait` | `ReadonlySession` implements the safety part of `QueryWait` |
| `Whole`, `TrueExit` | `CrontabIsWhole` and `ExitTells` of `alerting` |
| `Vouches`, `Harmless` | the two properties of `host_check` |
| `Clean`, `Lossless` | the two invariants of `redaction` |

The typing invariants of `FeishuPublish`, `BootstrapRole`, `Deploy` and
`ReadonlySession` are part of these inductive invariants and proved, and no run
repeats them.

All rest on the named assumptions of the modules: `ServerAssumption` (a finite
set of calls, at least one permit), `PublishAssumption` (sets and numbers of
the right kind, finitely many shops, `RequestTime` < `TTL`), `BootstrapAssumption` (a table has a
schema), `DeployAssumption` (a number of releases),
`SessionAssumption` (jobs and bounds of the right kind), `AlertingAssumption` (an
operator's job is not an alert line of the default tenant),
and `RedactionAssumption` (a result has a root).

*ToolServer*: the invariants are proved as one inductive invariant. None stands
alone: that a release never exceeds `MaxConcurrent` (typing) needs
`PermitAccounting`, which needs the sets of calls in flight to be finite; that
a settling call has no record yet needs `SettledMeansReplied`; that no child
outlives its handler needs the link between the phase of a call and its child.
`ChildrenBounded` then follows by counting: supervised children belong to
calls in flight, and those are counted by the permits. The refinement is proved
action by action from the same invariant. That of `QueryWait` needs `DbPhases` besides:
a call of a database tool never gets to a child's await or a publish's, so
whatever concludes it concludes its query.

*FeishuPublish*: `TokensAreOwn` and `CacheNeverFlatters` are strengthened by
`RequestsInTime`, which says of a request under way that it was asked no later
than its token was issued, for the app of its publish, and no longer ago than
`RequestTime`. An entry is dated `asked`, so it is never younger than its token,
and `TokensVouched` follows: from the cache by the honest entry, from Feishu by
`RequestTime` < `TTL`. The report needs an invariant of its own, `ReportInd`,
because `ReportIsTrue` speaks of all cards at once: those before `pos` have been
told truly, the one at `pos` counts its attempts and accepted copies, those after
it have not been tried; and `pos` is within a plan whose length is that of
finitely many shops.

The refinement of `Notification` rests on `PlanComplete`: the cards of a plan are
exactly the wanted pairs. `Plan` numbers the problem shops by a choice and
computes shop and target of the i-th card by division; that every pair is hit
needs the chosen numbering, an injection between sets of one size, to be onto
(`NumberingIsComplete`), and the arithmetic of quotient and remainder in both
directions (`PairIsCard`, `CardIsPair`). The steps then need `Unreturned` beside
`ReportInd`, a publish under way has not returned and so claims nothing, and that
nobody is reached before it sends. So every early return is a `Reject` or `FindHealthy`, and every
accepted card is a `Tell`, its retry telling the same recipient again.

*BootstrapRole*: the strengthening says, for every value of `pc`, which grants
the schemas already dealt with have: those in `listed` but not in `todo` have
usage, the select on every known table and the default privileges; between two
statements of one schema it has part of them. Grants are never taken back
but by dropping what they are for, so the facts of one run survive the others.
`CoversFuture` adds `FutureInd`: a schema a run has listed is still to be dealt
with or has usage and the default privileges, for as long as it exists. `RoleKept` needs only the
typing and `ReadOnlyFirst`: nothing but dropping takes a grant away, and a new
table is born visible only to a role that is read-only by then.

*Deploy*: `QueueInd` says that what waits or runs has been pushed, which keeps
the two apart. `LiveIntact` needs to know that the run which unpacks or removes
files is not for the live release: `WaitInd` says so while it waits, and for
the release its predecessor may go back to as well; `StepInd` says at each step
where `current` points, what `prev` is and what has passed its smoke. The order
of the releases, for `NeverBackwards`, is a small invariant of its own: nothing
on the host is newer than the head, and a run that got past the second guard
was at the head. `RolloutKept` uses the invariants of `LiveStays`: a switch is to a
release that is smoked and not live, `prev` is still what it replaced when a
rollback goes back to it, and every removal is of a release that is neither.

*ReadonlySession*: three small invariants, one for each question. `Shape` ties the
connection, the statement at the server and the answer to `pc`, and gives
`ConnectionsClosed` and `OnlyLimited`: a statement is behind a set limit, or of
SQL that may lift it. `Prefix` says that what has been collected
is the beginning of the exact result, and that a call which waits for rows has
results left. `Parts` says which catalog versions have been read: a found
table, and the current one unless it has moved.
The refinement goes action by action, most of them to stutters.

*Alerting*: a copy that is about to be installed must hold the jobs the
crontab is to keep, so `TabInd`, the invariant of `Whole`, says of every copy what
`CrontabIsWhole` says of the crontab: at most one alert line, and all kept jobs. It survives because a job is only counted as kept if nobody was
editing when it was added and no read has failed to find it. `ExitTells` is mostly about commands that have exited; the invariant adds
what those under way have seen and tried in each phase.

*HostCheck*: `Found` says what the checks passed so far have found out, while
the host is fresh, which of the audit file is no more than that it looks fine
(`LooksFine`), and `Vouched` carries that over to the server; what looks fine and
cannot be opened is one of the three causes `GreenLight` excepts. `Harmless`
follows since `touch` is only reached for a path that is not writable.

*Redaction*: the nodes visited or still to be visited are closed under "below"
once nothing is left to visit, so they contain all that is reachable, however
parts are shared; `NothingElseChanges` is inductive with it.

Only model-checked: the liveness properties (out of the prover's reach), `LeftoversEnd` and
the liveness part of `EndsLikeOneWait` among them; and what the violation runs show.

## Findings

Each is a run that TLC ends with a counterexample.

* `cancel_leaves_child`: a cancelled call leaves its stonx process running,
  without a timer and outside the semaphore's bound.
* `redeploy_live`: when the workflow of the live release is run again and its
  smoke fails, the rollback removes the release `current` points to.

What follows is plain from the code and has no run, since a property could only
repeat the code or state its opposite:

* A cancelled call is recorded in the audit log with the status success
  (`server.py:342`), and a call refused with `too_many_requests` is not recorded at
  all, against "Every tool call is recorded" of the repository's README.
* A probe that prints no JSON is answered as `invalid_params`, because
  `JSONDecodeError` is a `ValueError` (`tools/probe_connections.py:35`); a
  `shop_id` without a tenant is dropped and every scope is probed.
* SQL that is valid may be answered as `invalid_params` too: a value that cannot be
  loaded (a JSON integer of too many digits, bytes that do not decode) is a
  `ValueError`, and `_with_timeout` converts only `TimeoutError`.
* "PostgreSQL `statement_timeout` and a client-side timeout both cap SQL execution"
  (README.md:180): the caller's SQL may set `statement_timeout` itself and then run on
  (`OnlyLimited` and `LeftoversEnd` except it by name), and the client-side timeout
  waits for psycopg, which waits for PostgreSQL to cancel the statement.
* The credentials query of a publish has no timeout, although the README's
  "Timeouts" reads as if all SQL had one. Where there is one it is for each
  await: an inspected table has twelve of 5 s, and a child's start and its output
  have the full timeout each (`executor.py:55`).
* A publish whose every delivery failed returns its cards, and the alert command
  exits with 0: `ExitTells` says what 0 is worth. So does one that finds no problem
  but data sources with a configuration error, which are never told
  (`notification_publish.py:131`); and 1 may come after cards were sent.
* The second and third catalog query of an inspected table do not look again
  whether the role may see it; `TableIsWhole` excepts a table that changed.
* Columns are masked by their names, so an alias gets past the mask
  (`db.py`), and past `redact()`.
* A deployment drops the `FEISHU_CHAT_ID` of the crontab's alert line and the
  alert lines of other tenants; a failing `crontab -l` loses all other jobs
  (`CrontabIsWhole` excepts it by name).
* "Audit file is writable (directory + file itself)" (`doctor.py:106`) is less than
  that the server can append to it: a writable directory at the path, or a path at
  which nothing can be created, passes and makes the server fail at `audit.py:45`; a
  user without a name does so at `audit.py:41` (`GreenLight` excepts the three).
* The doctor's `touch` and `unlink` are at odds with "All checks are read-only"
  of `doctor.py`: `ReadOnly` shows that it takes somebody who makes the path
  writable between two of its system calls.
* A green run of `deploy-demo.yml` may have deployed nothing because
  `git ls-remote` failed (`blind` in `Deploy`).

## Not modelled

* `scripts/push-discord.sh`: a loop over chunks without shared state; that an
  error in the middle leaves the first chunks posted is plain from it.
* The layout of cards and reports, the text of SQL, the contents of a probe
  report, the string rules of `is_sensitive_key`: data that no property tells
  apart.
* The pull request workflow, packaging and tests.
* The MCP library: its own validation, its transport, how it reports an
  exception that leaves the handler.
* A flush that fails and leaves the record in the file's buffer, so that a later
  flush writes it: `Conclude` of `ToolServer` decides at once whether it is there.
* An error that psycopg meets while it awaits a cancelled query once more: the
  record of the cancelled call then says `execution_failed` (`Cancel` of `ToolServer`
  says success; `Abandons` of `ReadonlySession` has both).
* A table that is created in a transaction before the default privileges are
  altered and committed after the bootstrap has succeeded: creating and committing
  are one step of `BootstrapRole`.
* A `STONEX_OPS_BIN` under which the filter of `setup-alert-cron.sh` does not
  recognise its own line.
* Several servers that append to one audit file: whether long records mix is
  up to the file system.
* A token that Feishu has revoked, and a wall clock that steps back: nothing in
  the code reacts to either.
