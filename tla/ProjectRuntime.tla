---------------------------- MODULE ProjectRuntime ----------------------------
(***************************************************************************)
(* Starting, stopping and inspecting a project: services/pspm/             *)
(* project_runtime.py and project_health.py, and the shell scripts of      *)
(* utils/pspm/runtime_utils.py and runtime_ready.py.                       *)
(*                                                                         *)
(* Each project has two files on its server: service.pid, and service.meta *)
(* with pid|start_time|mode|time|port.  The scripts of different requests  *)
(* are operating system processes that really run side by side, on one     *)
(* server, with the services they manage; the project row's status is      *)
(* written by the request handler when its script has ended.               *)
(*                                                                         *)
(* The kernel gives a pid to a new process once its old process is dead.   *)
(* It takes tens of thousands of process starts to come round to the same  *)
(* pid, so a pid that a running script holds in a shell variable is not    *)
(* reused meanwhile; a pid left in a file or in a page may well be.        *)
(***************************************************************************)
EXTENDS Naturals

CONSTANTS
  Projects,
  Ops,          \* the requests of a behaviour, and the watchers of terminals
  Pids,
  Ports,
  NoPort,       \* a process that does not listen; a project without a port
  NoPid,        \* service.pid is not there
  NoMeta,       \* service.meta is not there
  Dead,         \* no process has the pid
  Stranger,     \* a process that runs outside every project directory
  Binds,        \* Binds[p]: the ports the program of p may listen on
  Selected,     \* Selected[p]: the port its configuration or command names
  MaxStarts     \* bound: how many processes are ever started

ASSUME RuntimeConstants ==
  /\ Binds \in [Projects -> SUBSET Ports]
  /\ Selected \in [Projects -> Ports \cup {NoPort}]
  /\ NoPort \notin Ports /\ NoPid \notin Pids /\ Stranger \notin Projects
  /\ MaxStarts \in Nat

VARIABLES
  procs,      \* procs[i]: the process with pid i, or Dead
  starts,     \* how many processes were started: the clock of start_time
  pidFile,    \* pidFile[p]: the content of service.pid
  meta,       \* meta[p]: pid, start time and port in service.meta
  status,     \* status[p]: 1 when the project row says running
  hungUp,     \* history: projects that the end of a terminal marked as stopped
  op,         \* op[h]: request h, its script's variables and its position
  victims,    \* history: victims[h], the processes that stop h sent a signal
  disturbed   \* history: projects whose requests overlapped or were given up

files == <<pidFile, meta>>
row == <<status, hungUp>>
vars == <<procs, starts, files, row, op, victims, disturbed>>

Process == [cwd : Projects \cup {Stranger}, port : Ports \cup {NoPort},
            start : 1 .. MaxStarts]
Meta == [pid : Pids, start : 1 .. MaxStarts, port : Ports \cup {NoPort}]

ASSUME NothingIsNoRecord == Dead \notin Process /\ NoMeta \notin Meta

Alive(i) == i \in Pids /\ procs[i] # Dead
Listeners(port) == {i \in Pids : Alive(i) /\ port # NoPort /\ procs[i].port = port}

\* Positions of a request while its script runs or its handler is at work.
Running == {"check", "probe", "launch", "detect", "ready", "stamp", "writePid", "writeMeta",
            "stop", "kill", "look", "update"}
Active(p) == {h \in Ops : op[h].proj = p /\ op[h].at \in Running}

\* A start in a terminal of the page is a watcher task that looks for the service
\* and records it; the page may also send a pid and a port to be finalized.
\* An inspection looks at files and process and writes the status it found.
OpKinds == {"start", "stop", "watch", "finalize", "inspect"}
Request == [kind : OpKinds, proj : Projects,
            at : Running \cup {"idle", "done"}, pid : Pids \cup {NoPid},
            port : Ports \cup {NoPort}, start : 0 .. MaxStarts, waiting : BOOLEAN]

Init ==
  /\ procs = [i \in Pids |-> Dead]
  /\ starts = 0
  /\ pidFile = [p \in Projects |-> NoPid]
  /\ meta = [p \in Projects |-> NoMeta]
  /\ status = [p \in Projects |-> 0]
  /\ hungUp = {}
  /\ \E kind \in [Ops -> OpKinds], proj \in [Ops -> Projects] :
       op = [h \in Ops |->
               [kind |-> kind[h], proj |-> proj[h], at |-> "idle", pid |-> NoPid,
                port |-> NoPort, start |-> 0, waiting |-> TRUE]]
  /\ victims = [h \in Ops |-> {}]
  /\ disturbed = {}

-----------------------------------------------------------------------------
(* The processes of the server.                                            *)

\* No script in progress holds the pid of a process that it has seen.
Free(i) == ~Alive(i) /\ \A h \in Ops : op[h].at \in Running \ {"ready"} => op[h].pid # i

Fork(i, dir, port) ==
  /\ Free(i)
  /\ starts < MaxStarts
  /\ starts' = starts + 1
  /\ procs' = [procs EXCEPT ![i] = [cwd |-> dir, port |-> port, start |-> starts + 1]]

\* A process is started by hand in a project's directory, or elsewhere.
Spawn(i) ==
  /\ \E dir \in Projects \cup {Stranger}, port \in Ports \cup {NoPort} :
       /\ dir \in Projects => port = NoPort
       /\ Listeners(port) = {}
       /\ Fork(i, dir, port)
  /\ UNCHANGED <<files, row, op, victims, disturbed>>

\* The program of a project opens its port; only one process can have a port.
Listen(i) ==
  /\ Alive(i) /\ procs[i].cwd \in Projects /\ procs[i].port = NoPort
  /\ \E port \in Binds[procs[i].cwd] :
       /\ Listeners(port) = {}
       /\ procs' = [procs EXCEPT ![i].port = port]
  /\ UNCHANGED <<starts, files, row, op, victims, disturbed>>

Exit(i) ==
  /\ Alive(i)
  /\ procs' = [procs EXCEPT ![i] = Dead]
  /\ UNCHANGED <<starts, files, row, op, victims, disturbed>>

\* The processes of the set die.
Kill(set) == procs' = [i \in Pids |-> IF i \in set THEN Dead ELSE procs[i]]

-----------------------------------------------------------------------------
(* Requests.                                                               *)

At(h, label) == op[h].at = label
GoTo(h, label) == op' = [op EXCEPT ![h].at = label]

\* What a watcher takes for the service of p: whoever listens on the selected
\* port, and only without one it looks at the directory.
Own(p) == {i \in Pids : Alive(i) /\ procs[i].cwd = p}
Reported(p) == IF Selected[p] # NoPort THEN Listeners(Selected[p])
               ELSE {i \in Own(p) : procs[i].port # NoPort}

\* The pid and the port to finalize come from the page and are taken as they are.
Begin(h) ==
  /\ At(h, "idle")
  /\ LET p == op[h].proj IN
       /\ \/ op[h].kind = "start" /\ GoTo(h, "check")
          \/ op[h].kind = "stop" /\ GoTo(h, "stop")
          \/ op[h].kind = "watch" /\ GoTo(h, "probe")
          \/ op[h].kind = "inspect" /\ GoTo(h, "look")
          \/ /\ op[h].kind = "finalize"
             /\ \E i \in Pids, port \in Ports \cup {NoPort} :
                  op' = [op EXCEPT ![h].at = "ready", ![h].pid = i, ![h].port = port]
       /\ disturbed' = disturbed \cup (IF Active(p) = {} THEN {} ELSE {p})
  /\ UNCHANGED <<procs, starts, files, row, victims>>

\* Exit 11 while /proc/old_pid is there; a stale service.pid is removed.
StartCheck(h) ==
  /\ At(h, "check")
  /\ IF Alive(pidFile[op[h].proj])
       THEN GoTo(h, "done") /\ UNCHANGED pidFile
       ELSE GoTo(h, "launch") /\ pidFile' = [pidFile EXCEPT ![op[h].proj] = NoPid]
  /\ UNCHANGED <<procs, starts, meta, row, victims, disturbed>>

\* cd, conda activate and nohup: exit 12 when one of them fails.
Launch(h) ==
  /\ At(h, "launch")
  /\ \/ GoTo(h, "done") /\ UNCHANGED <<procs, starts>>
     \/ \E i \in Pids :
          /\ Fork(i, op[h].proj, NoPort)
          /\ op' = [op EXCEPT ![h].at = "detect", ![h].pid = i]
  /\ UNCHANGED <<files, row, victims, disturbed>>

Found(h, i, port) == op' = [op EXCEPT ![h].at = "stamp", ![h].pid = i, ![h].port = port]

\* Mutant: whoever listens on the port is taken for the new service.
DetectByPortOnly(h) ==
  LET p == op[h].proj IN
  /\ At(h, "detect")
  /\ \/ \E i \in Listeners(Selected[p]) : Found(h, i, Selected[p])
     \/ Listeners(Selected[p]) = {} /\ GoTo(h, "done")
  /\ UNCHANGED <<procs, starts, files, row, victims, disturbed>>

\* The listener of the selected port that runs in the project's directory, else
\* any listener that does; exit 13 when twenty polls found none, and then the
\* launched process is left running.
Detect(h) ==
  LET p == op[h].proj
      onPort == Own(p) \cap Listeners(Selected[p])
      anywhere == {i \in Own(p) : procs[i].port # NoPort} IN
  /\ At(h, "detect")
  /\ \/ \E i \in onPort : Found(h, i, Selected[p])
     \/ onPort = {} /\ \E i \in anywhere :
          Found(h, i, IF Selected[p] = NoPort THEN procs[i].port ELSE Selected[p])
     \/ anywhere = {} /\ GoTo(h, "done")
  /\ UNCHANGED <<procs, starts, files, row, victims, disturbed>>

\* _check_started_process_ready: any living process, any listener of the port; without
\* a port, the one that the process itself listens on.
ReadyPort(h) ==
  IF ~Alive(op[h].pid) THEN NoPort
  ELSE IF op[h].port = NoPort THEN procs[op[h].pid].port
  ELSE IF Listeners(op[h].port) = {} THEN NoPort ELSE op[h].port

Ready(h) ==
  /\ At(h, "ready")
  /\ IF ReadyPort(h) # NoPort
       THEN Found(h, op[h].pid, ReadyPort(h)) /\ UNCHANGED <<procs, files>>
       ELSE /\ pidFile' = [pidFile EXCEPT ![op[h].proj] = NoPid]
            /\ meta' = [meta EXCEPT ![op[h].proj] = NoMeta]
            /\ Kill({op[h].pid}) \/ UNCHANGED procs
            /\ GoTo(h, "done")
  /\ UNCHANGED <<starts, row, victims, disturbed>>

\* _watch_foreground_port_ready: up to thirty polls.
Probe(h) ==
  LET p == op[h].proj IN
  /\ At(h, "probe")
  /\ \/ \E i \in Reported(p) : Found(h, i, procs[i].port)
     \/ GoTo(h, "done")
  /\ UNCHANGED <<procs, starts, files, row, victims, disturbed>>

\* start_time from /proc/pid/stat: exit 13 or 14 when the process is gone.  The
\* watcher then writes no record, and marks the project running all the same.
Stamp(h) ==
  /\ At(h, "stamp")
  /\ IF Alive(op[h].pid)
       THEN op' = [op EXCEPT ![h].at = "writePid", ![h].start = procs[op[h].pid].start]
       ELSE GoTo(h, IF op[h].kind = "watch" THEN "update" ELSE "done")
  /\ UNCHANGED <<procs, starts, files, row, victims, disturbed>>

WritePid(h) ==
  /\ At(h, "writePid")
  /\ pidFile' = [pidFile EXCEPT ![op[h].proj] = op[h].pid]
  /\ GoTo(h, "writeMeta")
  /\ UNCHANGED <<procs, starts, meta, row, victims, disturbed>>

\* Mutant: the start time was not read (awk ... || true) and nobody looked.
WriteMetaUnstamped(h) ==
  /\ At(h, "writeMeta")
  /\ meta' = [meta EXCEPT ![op[h].proj] =
                [pid |-> op[h].pid, start |-> 0, port |-> op[h].port]]
  /\ GoTo(h, "update")
  /\ UNCHANGED <<procs, starts, pidFile, row, victims, disturbed>>

\* Mutant: a service.meta that is there is kept.
WriteMetaOnce(h) ==
  /\ At(h, "writeMeta")
  /\ meta' = IF meta[op[h].proj] # NoMeta THEN meta
             ELSE [meta EXCEPT ![op[h].proj] =
                     [pid |-> op[h].pid, start |-> op[h].start, port |-> op[h].port]]
  /\ GoTo(h, "update")
  /\ UNCHANGED <<procs, starts, pidFile, row, victims, disturbed>>

WriteMeta(h) ==
  /\ At(h, "writeMeta")
  /\ meta' = [meta EXCEPT ![op[h].proj] =
                [pid |-> op[h].pid, start |-> op[h].start, port |-> op[h].port]]
  /\ GoTo(h, "update")
  /\ UNCHANGED <<procs, starts, pidFile, row, victims, disturbed>>

\* An inspection found the service running if it found its port.
NewStatus(h) == CASE op[h].kind = "stop" -> 0
                     [] op[h].kind = "inspect" -> IF op[h].port # NoPort THEN 1 ELSE 0
                     [] OTHER -> 1

\* update_status, by the handler that still waits for its script.
Update(h) ==
  /\ At(h, "update")
  /\ status' = IF op[h].waiting
                THEN [status EXCEPT ![op[h].proj] = NewStatus(h)]
                ELSE status
  /\ hungUp' = IF op[h].waiting THEN hungUp \ {op[h].proj} ELSE hungUp
  /\ GoTo(h, "done")
  /\ UNCHANGED <<procs, starts, files, victims, disturbed>>

\* _mark_project_stopped, when a terminal is closed in which the command of p was
\* typed: it looks at no process and leaves the record.
CloseTerminal(p) ==
  /\ status[p] = 1
  /\ status' = [status EXCEPT ![p] = 0]
  /\ hungUp' = hungUp \cup {p}
  /\ UNCHANGED <<procs, starts, files, op, victims, disturbed>>

-----------------------------------------------------------------------------
(* The stop script.                                                        *)

Signal(h, set) == victims' = [victims EXCEPT ![h] = @ \cup {procs[i] : i \in set}]

RemoveFiles(p) == /\ pidFile' = [pidFile EXCEPT ![p] = NoPid]
                  /\ meta' = [meta EXCEPT ![p] = NoMeta]

\* Mutant: service.pid is trusted.
RefusedWithoutStartTime(p) == meta[p] # NoMeta /\ meta[p].pid # pidFile[p]

\* Exit 25 and 26: the two files disagree, or the pid was given to another process.
Refused(p) ==
  /\ meta[p] # NoMeta
  /\ \/ meta[p].pid # pidFile[p]
     \/ Alive(pidFile[p]) /\ procs[pidFile[p]].start # meta[p].start

MetaPort(p) == IF meta[p] = NoMeta THEN NoPort ELSE meta[p].port

\* Up to the first signal: the process of service.pid and the listener of the
\* port in service.meta.  Without a file (21) or a process (24) the project
\* counts as stopped.
Stop(h) ==
  LET p == op[h].proj
      targets == {i \in Pids : Alive(i) /\ i = pidFile[p]} \cup Listeners(MetaPort(p)) IN
  /\ At(h, "stop")
  /\ \/ /\ pidFile[p] = NoPid
        /\ GoTo(h, "update")
        /\ UNCHANGED <<procs, files, victims>>
     \/ /\ pidFile[p] # NoPid /\ Refused(p)
        /\ GoTo(h, "done")
        /\ UNCHANGED <<procs, files, victims>>
     \/ /\ pidFile[p] # NoPid /\ ~Refused(p) /\ targets = {}
        /\ RemoveFiles(p)
        /\ GoTo(h, "update")
        /\ UNCHANGED <<procs, victims>>
     \/ /\ pidFile[p] # NoPid /\ ~Refused(p) /\ targets # {}
        /\ \E dying \in SUBSET targets : Kill(dying)   \* SIGTERM may be ignored
        /\ Signal(h, targets)
        /\ op' = [op EXCEPT ![h].at = "kill", ![h].pid = pidFile[p],
                            ![h].port = MetaPort(p)]
        /\ UNCHANGED files
  /\ UNCHANGED <<starts, row, disturbed>>

\* What the loop signals again, and kill -9 ends: whoever listens on the port, or
\* without a port the process of the pid.
Remaining(h) == IF op[h].port # NoPort THEN Listeners(op[h].port)
                ELSE {i \in Pids : Alive(i) /\ i = op[h].pid}

KillRemaining(h) ==
  /\ At(h, "kill")
  /\ Remaining(h) # {}
  /\ Kill(Remaining(h))
  /\ Signal(h, Remaining(h))
  /\ UNCHANGED <<starts, files, row, op, disturbed>>

\* Mutant: exit 27 is counted among the codes that mean "stopped".
StillRunningIsStopped(h) ==
  /\ At(h, "kill")
  /\ op[h].port # NoPort /\ Remaining(h) # {}
  /\ GoTo(h, "update")
  /\ UNCHANGED <<procs, starts, files, row, victims, disturbed>>

\* Exit 27: the port is taken again at the last look.
StillRunning(h) ==
  /\ At(h, "kill")
  /\ op[h].port # NoPort /\ Remaining(h) # {}
  /\ GoTo(h, "done")
  /\ UNCHANGED <<procs, starts, files, row, victims, disturbed>>

StopEnd(h) ==
  /\ At(h, "kill")
  /\ Remaining(h) = {}
  /\ RemoveFiles(op[h].proj)
  /\ GoTo(h, "update")
  /\ UNCHANGED <<procs, starts, row, victims, disturbed>>

-----------------------------------------------------------------------------
(* The inspection of a project: service status, and health.                *)

\* The port of the record, without one that of the process of service.pid; none
\* if there is no such process, or it is not the one of the record.
RunningPort(p) ==
  IF ~Alive(pidFile[p]) \/ Refused(p) THEN NoPort
  ELSE IF MetaPort(p) # NoPort THEN MetaPort(p) ELSE procs[pidFile[p]].port

\* Mutant: the pid is enough.
InspectByPid(h) ==
  LET p == op[h].proj IN
  /\ At(h, "look")
  /\ IF Alive(pidFile[p]) /\ MetaPort(p) # NoPort
       THEN op' = [op EXCEPT ![h].at = "update", ![h].pid = pidFile[p], ![h].port = MetaPort(p)]
       ELSE GoTo(h, "update")
  /\ UNCHANGED <<procs, starts, files, row, victims, disturbed>>

\* A script that fails or runs into its timeout, or a server that the user may no
\* longer use, counts as a service that is stopped.
Inspect(h) ==
  LET p == op[h].proj IN
  /\ At(h, "look")
  /\ \/ /\ RunningPort(p) # NoPort
        /\ op' = [op EXCEPT ![h].at = "update", ![h].pid = pidFile[p],
                            ![h].port = RunningPort(p)]
     \/ GoTo(h, "update")
  /\ UNCHANGED <<procs, starts, files, row, victims, disturbed>>

-----------------------------------------------------------------------------
\* The shell call runs into its timeout, or the backend restarts: the handler is
\* gone, and the script goes on without it or dies where it is.
GiveUp(h) ==
  /\ op[h].at \in Running /\ op[h].waiting
  /\ \/ op' = [op EXCEPT ![h].waiting = FALSE]
     \/ op' = [op EXCEPT ![h].waiting = FALSE, ![h].at = "done"]
  /\ disturbed' = disturbed \cup {op[h].proj}
  /\ UNCHANGED <<procs, starts, files, row, victims>>

Step(h) == \/ StartCheck(h) \/ Launch(h) \/ Detect(h) \/ Ready(h) \/ Probe(h) \/ Stamp(h)
           \/ WritePid(h) \/ WriteMeta(h) \/ Update(h)
           \/ Stop(h) \/ KillRemaining(h) \/ StillRunning(h) \/ StopEnd(h) \/ Inspect(h)

Next == \/ \E h \in Ops : Begin(h) \/ Step(h) \/ GiveUp(h)
        \/ \E p \in Projects : CloseTerminal(p)
        \/ \E i \in Pids : Spawn(i) \/ Listen(i) \/ Exit(i)

Spec == Init /\ [][Next]_vars

-----------------------------------------------------------------------------
(* Correctness.                                                            *)

TypeOK ==
  /\ procs \in [Pids -> Process \cup {Dead}]
  /\ starts \in 0 .. MaxStarts
  /\ pidFile \in [Projects -> Pids \cup {NoPid}]
  /\ meta \in [Projects -> Meta \cup {NoMeta}]
  /\ status \in [Projects -> {0, 1}] /\ hungUp \subseteq Projects
  /\ op \in [Ops -> Request]
  /\ victims \in [Ops -> SUBSET Process]
  /\ disturbed \subseteq Projects

\* A finalize took this process for the service because its caller said so.
Named(p, v) ==
  \E f \in Ops : /\ op[f].kind = "finalize" /\ op[f].proj = p
                 /\ op[f].start # 0 /\ op[f].start = v.start

\* A pid that came round again does not turn a stop against its new process: what
\* a stop signals runs in the project's directory or listens on the port that
\* the project's record names, or is the very process that a finalize was told to
\* record.  Finalize does not ask whose process it is.
StopSparesStrangers ==
  \A h \in Ops :
    op[h].proj \notin disturbed =>
      \A v \in victims[h] :
        \/ v.cwd = op[h].proj
        \/ v.port # NoPort /\ v.port = op[h].port
        \/ Named(op[h].proj, v)

\* A project that is only started and stopped in the background: when pid and start
\* time in its service.meta match a process, that process is the project's own,
\* however requests overlap and whatever else runs on the server.
Background(p) == \A h \in Ops : op[h].proj = p => op[h].kind \in {"start", "stop", "inspect"}
RecordIdentifiesOwn ==
  \A p \in Projects :
    LET m == meta[p] IN
    Background(p) /\ m # NoMeta /\ Alive(m.pid) /\ procs[m.pid].start = m.start
      => procs[m.pid].cwd = p

\* Between requests that did not overlap and were not given up, the two files say
\* the same process, so that a later stop is not refused (exit 25).
FilesAgree ==
  \A p \in Projects \ disturbed :
    Active(p) = {} /\ pidFile[p] # NoPid => meta[p] # NoMeta /\ meta[p].pid = pidFile[p]

\* Under the same condition a project with a record is listed as running, unless an
\* inspection looked at it, which may have found that its process is gone, or it was
\* a terminal that was closed since: that says stopped and leaves the record.
Inspected(p) == \E h \in Ops : op[h].proj = p /\ op[h].kind = "inspect" /\ op[h].at # "idle"
RecordedIsListed ==
  \A p \in Projects \ disturbed :
    Active(p) = {} /\ pidFile[p] # NoPid =>
      status[p] = 1 \/ Inspected(p) \/ p \in hungUp

\* What an inspection is about to list as running is the service, as far as a stop
\* would take it for that: no process that has merely been given the pid of one that
\* died since it was recorded (runtime_ready.py:183-195).
InspectionFindsTheService ==
  \A h \in Ops :
    LET v == procs[op[h].pid] IN
      /\ op[h].kind = "inspect" /\ op[h].at = "update" /\ op[h].port # NoPort
      /\ op[h].proj \notin disturbed /\ Alive(op[h].pid)
      => \/ v.cwd = op[h].proj
         \/ v.port # NoPort /\ v.port = op[h].port
         \/ Named(op[h].proj, v)

-----------------------------------------------------------------------------
(* What a comment says and the code does not keep.                         *)

\* _prepare_project_foreground_start: the record of PID, start time, mode and port
\* keeps a stop from killing a process on the same port or of an old PID.
StopKillsOnlyOwn == \A h \in Ops : \A v \in victims[h] : v.cwd = op[h].proj
=============================================================================
