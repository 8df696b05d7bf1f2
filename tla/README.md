# A formal model of the Python project management platform

The platform (`src/app`, FastAPI on asyncio, one uvicorn worker) creates, starts,
stops, configures and deletes Python projects on servers: a project is a directory,
a Conda environment, optionally a MySQL database and an Nginx server block, and a row
in the platform's own database. It also offers terminals in the browser. This
directory holds TLA+ modules of its parts, TLC configurations that check them on
small instances, and proofs that TLAPS checks for every instance.

Paths below are relative to `src/app`.

## 1. Inventory

Concurrency in this code comes from three places. The backend is one asyncio event
loop, so its handlers and tasks interleave at an `await` that suspends and nowhere
else. The scripts it sends to servers (through `sh`, `ssh` or `python3 -c`) are
processes of their own that really run in parallel and outlive the handler that gave
up on them. And the servers run processes nobody asked the platform about. There is
no lock across requests, except `_ws_terminal_lock`, under which nothing is awaited.

| component | state | operations | with whom | what is hard |
|---|---|---|---|---|
| project creation `services/pspm/project_create.py` | `*_created` flags of one request; directories, environments, databases, blocks, rows | `create_project_real_service`: 5 checks, 8 steps, `rollback_all` | shell and conda, MySQL, Nginx changes, project rows, operation log | no transaction spans the steps; partial failure, late success of a timed-out step, restart, concurrent requests with equal names |
| project runtime `services/pspm/project_runtime.py`, `project_health.py`, `utils/pspm/runtime_utils.py`, `runtime_ready.py` | `service.pid`, `service.meta` on the server; `status` of the row; processes | start, stop, finalize of a foreground start, inspection | scripts on the server, watchers of terminals | two files written by two commands, scripts in parallel, pids that are reused, ports that others take, timeouts |
| WebSocket terminals `api/pspm/terminal.py`, `services/pspm/terminal_ws_session.py` | `_ws_terminal_sessions`, a pseudo terminal, a reader task and watcher tasks each | open or rejoin, input, run_foreground, close, `POST /sessions/close` | runtime files and project status | tasks cancelled and awaited in an order, descriptors that are numbers, state read before a sleep |
| Nginx changes `utils/pspm/nginx_apply.py` | the conf file, `conf_bak`, what nginx has loaded | apply locally, apply on another server | creation, deletion, settings, sync | copy, write, test, reload, rollback; a script on another server that cannot run; a shared copy |
| block text and inventory `utils/pspm/nginx_server_blocks.py`, `nginx_inventory.py`, `nginx_remote_inventory.py`, `nginx_utils.py` | configuration files, Nginx fields of rows | find, build, mark, replace or append, remove blocks; list files by include rules; compare ports | creation, settings, deletion, sync | nested braces, braces in comments, marks that tie a row to a block, ports looked for in some of the files |
| deletion `services/pspm/project_delete.py` | the same resources | directories, environments, databases, blocks, rows, in this order | Nginx changes | no rollback, retry after a part is gone, running services |
| settings `services/pspm/project_setting.py` | the same resources | conda, database, Nginx, row; delete the original database | Nginx changes | changes before the row is updated, no rollback |
| synchronisation `services/pspm/project_sync*.py` | rows | check what is there, insert a row | creation | checks before awaits, no unique key on names |
| servers, users, ownership `api/pspm/servers.py`, `users.py`, `api/rbac/users.py`, `api/auth/login.py`, `crud/*.py` | rows, role bindings, `assigned_users` as text, Linux accounts | register, create, rename, delete users, bind roles, transfer projects, add and remove servers and accounts | rows of projects, terminals | read, change, write back; several commits |
| download tickets, legacy sessions `services/pspm/terminal_download_ticket.py`, `terminal_legacy_session.py` | in-memory tables | create, take, expire | file transfer | expiry, one use, state read before an await |
| views `project_list`, `_detail`, `_checks` | none | read | all | inconsistent reads only |
| HTTP layer, tokens, RBAC definitions, schemas, core | tokens, role rows, configuration | plain create, read, update, delete | all | nothing across steps |

What makes each component correct:

* creation: what fails leaves nothing behind that is not reported; a row stands for
  a project that is whole; nobody drops a database that he did not create; requests
  one after the other cannot harm each other, but for the server block of a namesake.
* runtime: the record of a background start names a process of the project; a stop does not
  reach a process that only inherited a recorded pid; files and status agree when a request is over.
* terminals: a descriptor is closed once and by its session; output is always read;
  only a close ends a shell; a closed session leaves nothing running or marked running.
* Nginx: a change happens as a whole or not at all; nginx runs what the file says.
* deletion and settings: what failed can be repeated, a success means what it says, no
  failure loses both the old and the new of a resource, a deleted row stays deleted.
* block text: what the platform wrote is found again, blocks of others stay as they are,
  no two projects get one port.
* administration: every project has an owner who exists, somebody administers the
  platform, the text of a server names the accounts that were made for it.
* terminals without a WebSocket: a closed session stays closed, calls in one session do not
  undo each other; one download per ticket, none after expiry.

`PROJECT.json` lists each component with its sources, and under `hazards` the lines
where something can go wrong that a test would hardly reach.

## 2. Modules

```
ProjectCreate  <- MCProjectCreate,  ProjectCreateProofs
ProjectRuntime <- MCProjectRuntime, ProjectRuntimeProofs
TerminalSession <- MCTerminalSession, TerminalSessionProofs
NginxText <- NginxConf  (abstract: an atomic change)
NginxText <- NginxApply (detailed; INSTANCE NginxConf WITH text <- Visible)
             <- MCNginxApply, NginxApplyProofs
NginxBlocks <- MCNginxBlocks, NginxBlocksProofs
ProjectLifecycle <- MCProjectLifecycle
                 <- ProjectLifecycleProofs <- ProjectPlansProofs
Accounts <- TerminalAccess (composes terminals and tickets with the accounts)
             <- MCTerminalAccess
             <- TerminalAccessProofs
```

### ProjectCreate
Every request has a program counter. A check (`CheckAccess`, `CheckName`,
`CheckConda`, `CheckDb`, `CheckPorts`) reads the world and refuses or goes on; a step
(`Mkdir` to `Log`) has three outcomes: it works and its flag is set, it fails without
effect, or it reports a failure after it took effect, which a timeout of `_run_shell`
or a lost connection can do. `Fail` is the `except` branch: it hands the flags to
`rollback_all`, whose five branches are the `Undo*` actions, each of which may fail
and is then named in `errors` (the `rollback_errors` of the answer). The last two,
environment and directory, have no `try`: `Escape` is the exception that leaves the
rollback there (`broken`), and with it the list of errors. There is one conf file, in which a
block is found by the project's name alone. `Restart` is the
end of the process: requests in flight are `lost` and nothing is rolled back.
`late` and `overlap` are history variables, read by properties only. The directory
of the owner's frontend files is shared and never removed, so it has no flag
in the model either.

### ProjectRuntime
The server's processes (`procs`: directory, port, start time) change by themselves: started by
hand, opening a port, ending. A request is a script with its shell variables (`op`), followed by
the handler's update of the row; every command of the script that reads or writes something others
can change is an action: the check of the old pid, the launch, the search for a listener, the
start time, the write of each of the two files, the first signals of a stop, the repeated ones,
the end. A watcher of a foreground start and the request that finalizes it are requests of kinds
`watch` and `finalize`. A finalize takes any pid and port: its body is not compared with anything,
and `Ready` looks only for a living process and any listener (`ReadyPort`). `CloseTerminal` is
what the close of a terminal does to the row of the project whose command was typed in it: the
status goes to stopped, process and record stay; `hungUp` remembers it until a request writes the
status again. `Inspect` is the script behind the health pages: it accepts a recorded pid that
lives with its start time, or a listener of the recorded port, and its handler writes the status
it found (`NewStatus`), like a start or a stop. `GiveUp` is a timeout or a restart of the backend:
nobody waits for the script any more, and it goes on or dies where it is. `victims` and
`disturbed` are history. Assumed: pids do not come round within one script's run (a pid in a file
may be stale, one in a shell variable is not); the platform sees the owner of every listening
port, so the exit 27 for a port without a visible process does not occur.

### TerminalSession
One action per stretch between two awaits that suspend. `Open`, `Create`,
`RunForeground`/`Type`/`Pending`, `Close`, `Closed`, `Disconnect` are the branches of
the WebSocket handler; `Pop`, `Notify`, `Cancel`, `Reap`, `MarkStopped` are
`_close_ws_terminal_session` in its order; `ReadTurn`, `Select`, `Broadcast` are the
reader task, `Probe`, `MarkRunning`, `SetForeground` a watcher task. `cancel()` marks
a task and the task ends at the await it is in; the thread of a reader that was cancelled
inside `select` stays there for up to 0.2 seconds (`threads`, `ThreadReturns`), and the descriptor may be
closed under it. Descriptors are numbers and `openpty`
takes the lowest free one, as on Linux: this is what makes closing one twice dangerous.

### NginxText, NginxConf, NginxApply
A file is, for each project, the port of the block with its mark, or no file at all. `NginxConf`
is the promise: `Make`, `Fail`, or a change that is `CutShort`. `NginxApply` is the code: on the
platform's own server (`local`) copy and write come without an await. On another one `ReadRemote`
reads the text and `ScriptFails` is all the second command can do: the script lacks its imports,
ends in its first line and touches nothing. `CannotWrite` puts the copy back, `Rollback` does so
after a failed test or reload, `Crash` is the end of the backend. Commands may fail for reasons of
their own. `Visible`, the refinement mapping, says that the callers see the copy while a change is
being tested. `Serial` says whether a request may come while another one is at work: the code does
not prevent it, so both promises, `ChangesAreAtomic` and `NginxRunsTheFile`, are checked and
proved for `Serial = TRUE`, and the run `nginx_rollback` shows what `FALSE` does.

### ProjectLifecycle
The handlers of deletion, settings, removal of the original database and synchronisation share a
shape: they load the row (`Load`), decide everything from that snapshot and the body, and then
take their awaited steps, with no rollback. So a request is a plan (`DeletePlan`, `SettingPlan`,
`OriginalDbPlan`, `SyncPlan`), a sequence of steps made from `seen`, and each label is one action
(`RemoveDir` to `Log`). A step that is impossible ends the request; one of a request in `Faulty`
may also fail before or after it took effect, which stands for timeouts and for the end of the
backend. `status` is the update that a start or stop writes when it ends, and `transfer` the one
update that gives the projects of deleted users to another owner, names unseen (`moved` remembers
them). A block is in a file of a server: `NginxOf` and `FileOf` say which one the row means.
`CanChange` is what `NginxApply` makes of a change there: on the platform's own server it succeeds
if the user may use it and its Nginx runs, on another one never. A change of settings looks at the
server (`NginxUp`) even if nothing is to be written; `Unchanged` is the early return for a binding
that stays, and `OriginalBlock` the removal that is skipped by path alone. Several commands keep
the oddities of the code: directory and environment of a deleted project are removed on the
platform's own server (`Here`), `conda env remove` fails on what is not there while the removals
of directory, database and block do not, and the port check of settings comes after environment
and database were changed. Isolation between the two queries of one session is left open
(`NameFree`).

### NginxBlocks
A file is a sequence of lines of a few kinds; opening and closing braces in comments and strings
(`"begin"`, `"end"`) are kinds of their own, because the scanner counts them and Nginx does not.
`CommentsClose` says that the comments of a server open no more braces than they close: then its
range ends where the server does, or before. Without that a range takes in the servers behind it, and no
property of the blocks holds; they are checked and proved for files and texts with it (section 5
says what happens without). `Ranges` is the scanner, `Marked`,
`ReplaceOrAppend` and `RemoveBlocks` are the text functions, `Includes`, `ListedFiles`, `NewDirs`
the inventory, `TakenPorts` the port check, and `Create`, `CreateUndone`, `Set`, `Unset`,
`Delete`, `Sync` are what requests do with them. A confirmed text is any member of `Edits`, and
`Accepts` is `nginx -t` as far as these lines go: braces match, no server stands in a server, and
those of the main file stand in `http`. `RemoveBlocks` is what the loop keeps, also
when one range lies in another. No change on another server
succeeds (`Apply`, `Set`). A change of a file is one step
here: what lies within it is `NginxApply`, and `OneBlockPerMark` is what `NginxText` and
`ProjectLifecycle` take for granted when they give a project one block per file.
`TextsAreOrdinary`, `NamesAreApart` and `RulesAreWhole` at the end of the module are what the
proofs suppose of users and of the main file; TLC evaluates them on the instance.

### Accounts and TerminalAccess
`Accounts` has the users, role bindings, servers with their `assigned` text, Linux accounts and
owners. `Begin` is everything a request decides before its first commit, and `Steps` the
commits in their order. `seen` is kept because two values are used after an await: the
largest number of a user (`InsertUser`) and the row of the server (`Text`: the session keeps
its rows, so the second query gives the same object). `TerminalAccess` EXTENDS it: sessions
without a WebSocket, transfers and download tickets, each call reading session and
permission first, waiting for the server, and then storing under the lock. WebSocket
sessions enter as the constant `Sockets`. `InstalledPlatform`, `RequestsAsk` and `FirstTerminals` say
what the platform begins with and what a body may hold; TLC evaluates them on the instance.

## 3. Runs

| run | bounds | states | what it shows |
|---|---|---|---|
| `create` | 2 requests, 4 bodies sharing all, one or no resource, faults after the effect, and exceptions in the rollback, in one request | 571 thousand | `RecordLastInFirstOut`, `LeftoversAreReported`, `DatabaseHasOneHolder`, `SerialRequestsKeepApart` |
| `create_whole` | the same without faults after the effect | | **violated**: the loser's rollback removes the winner's directory or environment |
| `runtime` | 2 requests of any of five kinds, 2 projects that may use one port, 2 pids, 3 process starts | 10.8 million | `StopSparesStrangers`, `RecordIdentifiesOwn`, `FilesAgree`, `RecordedIsListed`, `InspectionFindsTheService` |
| `runtime_scope` | the same | | **violated**: a stop kills a stranger on the project's port |
| `terminal` | 2 sessions, 2 connections and a close call of one user, 1 watcher, 1 project, 2 descriptors | 5.2 million | `DescriptorsOwned`, `ReaderKeepsReading`, `RefreshSparesShell`, `ClosedIsStopped` |
| `terminal_release` | 2 sessions, connections of two users, 1 close call | 94 thousand | liveness `ClosedIsReleased` |
| `nginx` | 3 changes in turn: a block added, removed, and one that nginx rejects | 4 thousand | refinement `ChangesAreAtomic`, `NginxRunsTheFile` |
| `nginx_rollback` | the same, overlapping | | **violated**: "rolled back", and the file is gone |
| `lifecycle` | 2 requests of 25 bodies, 4 projects, 2 owners and a root user, 2 servers with Nginx each, faults in one request | 44 thousand | `RepeatedDeletionGetsThrough`, `DeletionCompletes`, `DeletedStaysDeleted`, `ChangeKeepsOne`, `SettingsKeepData`, `SettingsKeepTheBlock`, `NamesUniqueSerially` |
| `blocks` | 2 projects, 3 files of up to 14 lines, 7 ports, any sequence of requests, comments that close what they open, Nginx here or on another server | 13 thousand | `FoundAgain`, `OthersUntouched`, `PortsApart`, `OneBlockPerMark` |
| `blocks_name` | the same, one project with a dot in its name | | **violated**: its block is not found again |
| `platform` | 3 begun of 2 requests (21 bodies) and 2 calls (11 bodies), 3 users of whom 2 are root, 2 servers, 2 sessions, 2 tickets, 2 moments | 2.5 million | `ProjectsHaveOwners`, `SomebodyAdministers`, `TextNamesTheAccounts`, `SessionsKeepTheRest`, `TicketServesOnce` |

Why the bounds are enough to be interesting: every hazard in question is between two parties. Two
requests let one fail while the other succeeds; three process starts let a pid belong to a
service, be reused, and be reused again; two descriptors and two sessions let a number be closed
and handed out anew; three changes let one find the copy that an earlier one left behind; in
`lifecycle` the bodies name the same and different projects, servers, owners, databases, files and
ports (one path on two servers, too), so that one request can hit what the other uses; in `blocks`
histories are unbounded, and `MaxLines` leaves room for the blocks of both projects in one file;
in `platform` three begun requests let two overlap and a third one come between or after. In
`runtime` and `terminal` equal elements are declared symmetric; those runs check invariants only.
A system whose users may all have gone does stop, so these runs do not look for deadlocks, and
neither do `lifecycle` and `platform`, whose requests all end; `create` and `blocks` do.

The violated properties state what the repository itself says (docstrings, README,
messages); the quotations are under `findings` in `PROJECT.json`.

### Fairness
Only `terminal_release` assumes any. That a request of the platform ends is not
claimed: after a timeout `_run_shell` kills its shell and then waits, without a bound, for
the pipes that a child may hold (`shell_utils.py:81-84`).

* `terminal_release`: weak fairness of the closing handler, the watchers, the
  reader and its thread: the event loop runs what is ready, `select` has a timeout of 0.2 s, and
  a send to a client that does not read ends by the server's keepalive. Users and
  shells owe nothing: that a shell dies after SIGHUP is not assumed.

## 4. Proofs

### ProjectCreateProofs (no assumption but `PayloadShape`)
`Spec => []IInv`, from which `TypeCorrect`, `RowComesLastAndGoesFirst`,
`NothingIsLeftUnsaid` and `OneHolder` follow, for any number of requests over any bodies.
The properties alone are not inductive: that a listed project is whole depends on how far
its request got. The invariant adds, for every request, `Fits` (flags and undo contain only
what the body asked for, and nothing is flagged before the first step), `Progress` (what the
request has passed is flagged, and what is flagged is there, as long as nobody shares
it), `RowInv` (a row exists only from `Insert` on, and goes before anything
else does) and `LeftInv` (whatever exists of a request that shares nothing is flagged or
late, and during a rollback still to be undone, reported, or late; where an exception
ended it, environment and directory may be left). `StepShape` says once
that a step touches one resource of its own body and leaves the other requests alone;
`OthersKept` and `OwnKept` then treat the two sides. `DatabaseHasOneHolder` is inductive
because `CREATE DATABASE` refuses a name that exists.

`LaterRequestsAreStopped` (`SerialRequestsKeepApart`) needs a second invariant, `SInv`
(`ApartInvariance`): requests in flight together know of each other (`Together`), what a request flagged
is there as long as those it ran with share nothing with it (`Kept`), and whoever is
in flight and did not run with a created request has not come past the check that finds
what it made (`Later`, `Stopped`). `CheckStops` shows that such a request is refused there, so that
none of its steps, and no rollback, can reach what the created one has. A block is
the exception: a project of another owner with the same name is not refused
(`Contested`), so the theorem leaves the block out where there is one.

### NginxApplyProofs (for `Serial`)
`Spec => []IInv`, `TypeCorrect`, `Implementation` (`Spec => ChangesAreAtomic`, the refinement
of `NginxConf`) and `LoadedIsWritten`. The invariant says that one request is at work at
a time, that the copy is of the file that the change was made of (`CopyIsOfBefore`), which is
what makes a rollback an undoing, that a text whose reload has begun is valid, and that what
is loaded is what the callers see. `InitRefines` and `StepRefines` map the initial states
and each step to a change, a failure, a cut or a stutter.

### ProjectRuntimeProofs (from `RuntimeConstants` and `NothingIsNoRecord`)
`Spec => []IInv`, from which `TypeCorrect`, `StopIsConfined`, `RecordIsOwn`, `FilesStayTogether`,
`RecordIsListed` and `InspectionIsTrue` follow, for any projects, requests, pids and ports. What
makes the invariant inductive:

* `Past` and `MetaTrue`: start times only grow, so a process that gets the pid of a
  record later cannot match the record's start time; a record that matches a living
  process therefore still names the one it was written about (`MetaTrueKept`).
* `Held`: a pid that a script holds is not reused, so between the search for a listener
  and the two writes it means the process that was found, or nothing (`HeldKept`).
* `OneAtWork`: in a project that is not disturbed one request at most is at work
  (`AtWorkAlone`); hence `Orderly` may let files and status disagree only while that
  request stands between its writes.
* `Struck`: what a stop signalled ran in its project, listened on the recorded port, or is
  `Named`: a finalize was told to record it. `NamesStay` keeps that true, as a finalize that has read
  a start time keeps it.

`ProcsGo` and `StepOf` say what a step may do to the processes and to other requests;
`StepKeeps` reduces each action to the invariant of its own request and project.

### TerminalSessionProofs (from `TerminalConstants`)
`Spec => []IInv`, from which `TypeCorrect`, `OwnDescriptor`, `OutputIsRead`, `RefreshIsHarmless`
and `CloseStops` follow, for any sessions, connections, calls, watchers and descriptors. None
of the properties is inductive by itself:

* `Held`: the descriptor of a session is its own as long as anybody may use it (`InUse`: the
  table, a reader, or a closer that has not come to `Reap`). `OneCloser` says that there is
  one closer at most, since the session leaves the table where it is found; so a
  descriptor is closed once, after the reader, and before `openpty` can hand it out again.
* `ActorInv`: a closer works on a session that is out of the table and that a user
  asked to end, or whose shell was dead already.
* `SessionInv`: a reader is only cancelled when its session has left the table; so a thread that
  outlives its reader's task (`Lingering`) is one of a session that is gone.
* `Stopped` (`ClosedIsStopped` without its last premise) rests on `Quiet`: once a closer has
  told the clients, every tracked watcher of the session is cancelled or over; on `WatchInv`:
  an untracked watcher starts only when the session is gone; and on `Marked`: a project is
  marked running by a watcher only.

Each action has a lemma that says point by point what it does (`ReapDoes`), and one that it
keeps the invariant (`ReapKeeps`); messages that close nothing share `TurnsKeep`. `Frame` is what
holds of any step, and `StoppedKept` derives the last part from it.

### TerminalAccessProofs (from `InstalledPlatform`, `RequestsAsk`, `FirstTerminals`)
`Spec => []TInv`, from which `TypeCorrect`, `RootStays`, `HandedOver`, `TextIsRight`, `OneDownload` and
`OneFieldAtATime` follow, for any requests, calls, users, servers, sessions and tickets.
The first part of the module is about the steps of `Accounts` alone and mentions no terminal;
the second adds sessions and tickets and has the theorems. The parts of the invariant:

* `RequestInv`: which steps a request may have ahead (`Ahead`, whose members `AheadShape`
  describes) and that of two requests at work each knows the other (`overlap`).
* `AdminInv`: one user of the role root is on the list of no deletion at work. A deletion
  looks at roles before its first commit and unbinds only its own list, so that user stays
  through the commits of all the others.
* `OwnersInv`: the user behind a request is there or was deleted beside it; and past its
  first commit a deletion has left no project with those it will remove, but the ones
  that came to them beside it (`Leaves`).
* `NamesInv`: the text that a request read is still the text of the server while nothing
  else is at work there (`Calm`); in between, account and text differ by what its next step
  will do (`TextInv`).
* `TicketInv`: what was served is out of the table and its id was issued, so that `MakeTicket`
  cannot bring it back; `SessionInv`: a closed session is not in the table, and a call
  that opens one has a user and a server that exist.

`Moved` and `Effects` say once what a step of any request may do to requests and tables;
`StepDoes` shows it of each of the sixteen steps, and every later lemma uses it instead of
the actions. The proof found an exception that the instance checked before had missed, since
it takes three requests: see the consequence about projects handed over in section 5.

### ProjectLifecycleProofs and ProjectPlansProofs (from `LifecycleConstants` and `LifecycleNames`)
All properties of the lifecycle are proved, for any installed rows, bodies, ids and number of
requests. The assumptions say what the theorems take from the constants: ids are positive and
a deletion names at least one, a start or stop writes 0 or 1, the installed rows have their names
apart and name files and projects of the instance, and no file, name or installed resource is
the empty field.

`ProjectLifecycleProofs` is about the rows: `Spec => []IInv` (`Invariance`), from which
`NamesStayApart` and `NoResurrection` follow. Rows in `moved`, which a transfer gave to their owner,
are left out of the first: nothing looks at their names. That names are apart is not inductive: what
counts is what happened between the look at the names and the insertion. The invariant
follows a request that inserts:

* `Inserting`: its plan holds the insertion once, and before it a look at the names still
  to come, or `Cleared`: no row has the name but those of requests in flight together with it.
* `SinceLoad`: every row that is listed was listed when the request loaded, or was inserted
  by a request beside it. So a look at the old table is as good as one at the new.
* `Mutual` and `Unborn`: requests in flight together know of each other, and one that has
  not begun has inserted nothing.

`SyncPlanShape` and `RecordPlanShape` establish `Inserting` when the plan is made, `RestOfPlan`
keeps it along the plan, and `WorkRows` says what a step of any handler does to the rows:
it keeps owners and names and lists nothing again, inserts one row under a new id, or transfers
rows, which are then in `moved`.

`ProjectPlansProofs` is about the plans and the resources, and adds `JInv` to `IInv`. What a
request does is fixed in its plan, so the argument has two halves.

* The shape of a plan (`PlanShape`): which steps a deletion, a change of settings, the
  removal of the original database and a registration can hold, in which order, and that a
  deletion ends with its rows (`EndsWithRows`). `DeletePlanSteps`, `SettingPlanSteps` and
  `OriginalDbPlanSteps` establish it when the plan is made, `RestOfShape` keeps it as the plan
  gets shorter. A deletion has a step for every id whose row has the field. `Each` gives that sequence
  in closed form, the j-th step being for the place of rank j (`Ranks`), because what a recursive
  filter returns could only be shown by induction over the list.
* To do or done: of a deletion that runs alone (`Deleting`), each removal its scope asks for
  is still in the plan or its object is gone; of a change of settings that runs alone (`Changing`),
  each database, environment or block it is to make is still in the plan or is there, and the
  original one goes only after it. Neither property is inductive without this: that
  nothing is left at the end follows from every step before.

`PlansInvariance` is `Spec => [](IInv /\ JInv)`; `TypeCorrect`, `RepeatGetsThrough`,
`DeletionIsComplete`, `ChangeLosesNothing`, `DataKept` and `BlockKept` follow. `Stop` lists where
a deletion without faults may end. The action properties use `OnlyItMoves`: while a request runs
alone, no other takes a step.

### NginxBlocksProofs (from `BlockConstants`)
All properties of the server blocks are proved, for any files, projects, names, include rules and
confirmed texts: `TypeCorrect` with no further hypothesis, `OneBlock` and `OthersLeft` for
`TextsAreOrdinary`, `Invariance`, `BlocksFoundAgain` and `PortsStayApart` for `NamesAreApart` and
`RulesAreWhole` as well. The hypotheses are what the program does not check:

* `TextsAreOrdinary`: a name is its own mark (the run `blocks_name` shows what happens otherwise);
  braces of a confirmed text match; its only mark, if it has one, is its project's and stands in a
  range as the program sees it (a text whose mark stands behind a closing brace in a comment is
  never found again); comments of these texts and of the files at first close what they open
  (`CommentsClose`; see section 5 for what happens otherwise); and no file has two blocks of one
  project at first.
* `NamesAreApart`: two projects with one name, which two owners may give, share one mark, and
  each request for one replaces the block of the other.
* `RulesAreWhole`: a rule that lets files be made in its directory takes in all of them; see the
  include rule that names one file in section 5.

What the functions do depends on how braces match, which one would show by induction over the
lines. `Least` (a set of numbers has a least one) takes its place: a claim about every line is
shown by looking at the first line at which it would fail. The argument has these layers:

* Levels. `Depth` is the depth after a line, in both ways of counting: as Nginx does, and as the
  program does, which counts braces in comments too. `Block` says which
  line closes which by depth, and `Blocks` shows that `BlocksOf`, defined by counting, is that.
* Servers. `Sane` is what Nginx accepts, `Tame` that comments close what they open (`TameIs`: this
  is `CommentsClose`), `Good` is both. In a good text a range of the program is at most the server
  that starts there (`ServerIsClosed`, `RangeInServer`), so two ranges have no line in common
  (`RangesApart`).
* One splice. To replace, to append and to remove are one operation (`Swapped`): the lines of one
  range, or none at the end, make room for a text. `SwappedLevels` and `HoleIsServer` carry the
  point: since the file before and the file after are both accepted, what is taken out is a whole
  server as Nginx reads it, even if the program stopped at a closing brace in a comment. Then
  every other server moves as a whole (`ServerStays`), and every range of the result is an old or
  a new one (`ServerComes`); since each of them is tame, so is the result (`StandsIsTame`,
  `SwappedIsGood`). `RulesKept` shows that no include rule of the main file is lost.
* Texts. `NewText` is what a request may write: braces match, comments close what they open, one
  mark, both ports. `GeneratedIsNew` and `MarkedIsNew` show it of the default text and of the
  three cases of a confirmed one; a line that is no brace changes no depth (`LevelLine`,
  `TameAround`).
* Steps. `Keeps` says what a change keeps (`ReplacedKeeps`, `RemovedKeeps`; a creation that is undone
  is two of them). `Step` says what a request does to files and rows, and `ActIsStep` shows it
  of each request; the invariants use `Step` only.

The invariant of `OneBlock` and `OthersLeft` is that files are accepted, marks are apart and
comments close (`Single`, with `Closing`). `Found` says more than the properties: that a project's
blocks bear no other project's mark (`Only`), so that changes for others leave them alone, that
they have the ports of the row, so that the port check of others sees them (`PortsSeen`), and that
their file is reached by the include rules, which no change takes away.

### Only model-checked
Liveness (`ClosedIsReleased`), which is out of the prover's reach. Every other
property that a passing run checks is stated by a theorem.

## 5. Not modelled

* The contents of views, HTTP routing and error envelopes, the signing of tokens, and the
  pages that define roles and menus keep no state over several steps.
* Terminal path parsing, completion, file streaming, ssh and askpass are string handling or
  input and output. The output buffer of a terminal is written and trimmed but never read.
* Copying and exporting a project only write a log entry: there is no task behind the answer.
* The MySQL transaction isolation is left open where it matters (`NameFree`). A deletion looks
  its ids up in one page of 500 rows (`project_delete.py:56`); the tables here are smaller.

Beside the findings, the models show several consequences of how the code is written. The
properties are stated so that they hold with them; a reader who changes the code should
know them:

* Deletion removes directory and environment on the platform's own server, also for a project that
  is on another one (`project_delete.py:86`, `:109`); a deletion that failed after the environment
  was gone cannot be repeated with it in scope, nor can one whose block is on another server,
  whose user may not use the Nginx server (`project_delete.py:158`), or whose directory is `/`,
  `/root` or `/opt` (`project_helpers.py:207`); a running service outlives its row.
* The transfer of the projects of deleted users looks at no name (`crud/pspm_project.py:146`), so an
  owner may end up with two projects of one name. Only the row changes: the directory stays where it is.
* Settings that move a block from one server to another skip the removal of the original one if
  both files have one path, because only the paths are compared (`project_setting.py:123`,
  `:249`): the answer is success, and the original block stays on the old server, where no row
  names it.
* Settings with an unchanged binding and no confirmed text return before the wish to delete the
  original block is looked at (`project_setting.py:181`).
* Settings check ports after environment and database were changed. If they fail after the
  original database was dropped, the row names one that is gone. Two projects of two owners with
  one name share one mark in a file: the block of the later one replaces that of the earlier one,
  with no overlap of the requests, and its rollback or deletion removes it
  (`nginx_server_blocks.py:177-182`). Two projects can be synchronised to one database, and the
  removal of the original database of one takes it from the other, which the docstring denies
  (`project_setting.py:393`).
* A rollback that meets an exception at environment or directory stops there, and its answer
  names nothing of what is left (`project_create.py:304-325`).
* A rollback of a creation drops the database before the server block, in the other order
  than its docstring says (`project_create.py:266`, `:283`).
* No change on another Nginx server can succeed (`nginx_apply.py:124`): every request that needs
  one there fails.
* The inventory of another server expands include rules with a module it does not import
  (`nginx_remote_inventory.py:201`), so requests with Nginx there are refused as soon as the main
  file has such a rule. An include rule that names one file lets new files be made beside it that
  nginx never loads. A confirmed text whose mark stands behind a closing brace in a comment is
  never found again. With an opening brace in a comment a range takes in the servers behind it:
  their ports count as its own (and as free, if it then bears the mark of the project that asks),
  a confirmed text of two servers is marked in the first and, if no brace closes it, never found,
  and a change takes them along. The mark of a confirmed text without one goes behind the first
  `server {`, also if that stands in a comment (`nginx_server_blocks.py:170`); this is not
  modelled. The second server of a confirmed text stays unmarked, and its extra ports are
  unchecked.
* The text of assigned users is read before the Linux command and written after it, so one of two
  overlapping assignments is lost. Linux accounts are made on the platform's own server. A user
  who deletes others with their projects, and is deleted himself meanwhile, gets their projects
  after his own were handed over, and they are left with him (`api/pspm/users.py:131-146`). The
  user page of the RBAC menu neither transfers projects nor unbinds roles. A crash between the
  commits of a registration leaves a user without a role, and two overlapping creations of a
  server may both pass the check of its address.
* Finalize records the pid and port of its body with the start time found then, so the later
  comparison compares a process that got a reused pid with itself (`runtime_ready.py:64`,
  `runtime_utils.py:153`). If no port is found it kills that pid.
* Closing the terminal in which a project runs lists it as stopped and leaves its record, also
  if the service lives on (`terminal_ws_session.py:434`).
* An inspection whose script fails lists a running project as stopped, and one that overlaps
  a start or a stop may write a status that is out of date.
* Closing a session may close the descriptor under the thread that is still in `select` on it
  (`terminal_ws_session.py:216`, `:428`), and the number may be handed out again meanwhile; nothing is
  read on that thread's word.
* A watcher that is created after its session was closed belongs to nobody
  (`api/pspm/terminal.py:198`).

## 6. Plan

What earlier versions of this plan listed (server block text, removal and settings,
administration, tickets, inspection; proofs about every safety property of every module) is
done. What would come next:

1. `ProjectLifecycle` composed with `ProjectRuntime`: what a deletion leaves of a running service.
2. `ProjectRuntime`: a script that runs on after its timeout beside the next request of its project,
   and overlapping updates of the status, which the hazards list without a property.
